---- MODULE Spec2Model ----
(***************************************************************************)
(* Model of the treasury contract aniki::treasury                          *)
(* (src/move/aniki_treasury/sources/treasury.move).                        *)
(*                                                                         *)
(* Every public entry function of the contract is one atomic transaction:  *)
(* a Move abort rolls back every change of the call.  Each entry function  *)
(* is a pure operator that walks the function body in source order and     *)
(* yields the abort code or the new objects.  An aborted transaction       *)
(* leaves no trace in the object store, so it is no step of the state      *)
(* machine: the action of an entry function is enabled when the call       *)
(* succeeds and installs its outcome.  What a failing call returns is      *)
(* read off the operator.                                                  *)
(*                                                                         *)
(* Shared objects: Treasury and TreasuryBalance (one pair per              *)
(* initialize_treasury).  Owned objects: TreasuryAdminCap and AgentCap.    *)
(* The Clock is the shared clock object whose timestamp the environment    *)
(* sets.  Addresses cold_wallet/hot_wallet/admin, recipient and memo are   *)
(* stored by the contract and never read by any check; they are left out.  *)
(***************************************************************************)
EXTENDS Integers, Naturals, Sequences, FiniteSets, TLC

\* ======== Bounds of the exploration ========

\* total number of pending approvals opened over all treasuries
MaxApprovals == 2
\* total amount held by all TreasuryBalance objects
MaxBalance == 2

\* treasury instances that initialize_treasury may create
TreasuryIds == {1, 2}
\* agent ids
AgentIds == {"A", "B"}
\* transaction senders: two signers and one outsider
Senders == {"s1", "s2", "x"}
\* amounts passed to deposit, allocate_agent_budget and agent_transfer
Amounts == {1, 2}
\* configuration values offered to initialize_treasury
ColdThresholds == {2}
HotThresholds == {0, 1, 2}
DailyLimits == {3}
SignerLists == {<<"s1", "s2">>}
MultisigThresholds == {0, 2, 3}
SecurityLevels == {1}

\* ======== Program constants ========

\* u64 of the Move VM, scaled to 30 bits (arithmetic beyond it aborts)
MAX_U64 == 2^30 - 1
\* u8 of the Move VM (multisig_threshold, and the casts of vector::length)
MAX_U8 == 255
one_day_ms == 86400000
APPROVAL_TTL_MS == 86400000

\* timestamps of the Clock object and durations of an allocation
Clocks == {0, one_day_ms}
Durations == {0}

\* abort codes
OK == "OK"
E_NOT_AUTHORIZED == "E_NOT_AUTHORIZED"
E_INSUFFICIENT_BALANCE == "E_INSUFFICIENT_BALANCE"
E_INVALID_THRESHOLD == "E_INVALID_THRESHOLD"
E_EMERGENCY_MODE_ACTIVE == "E_EMERGENCY_MODE_ACTIVE"
E_DAILY_LIMIT_EXCEEDED == "E_DAILY_LIMIT_EXCEEDED"
E_INVALID_AGENT_ID == "E_INVALID_AGENT_ID"
\* aborts raised by the Move VM and the Sui framework, not by the module
ARITHMETIC_ERROR == "ARITHMETIC_ERROR"
EFieldAlreadyExists == "EFieldAlreadyExists"

VARIABLES
    treasury,     \* treasury id -> Treasury object (shared)
    balance_obj,  \* treasury id -> TreasuryBalance object (shared)
    admin_caps,   \* set of TreasuryAdminCap objects
    agent_caps,   \* set of AgentCap objects
    clock,        \* timestamp_ms of the Clock object
    ledger        \* history: what each agent / each approval id got debited

vars == <<treasury, balance_obj, admin_caps, agent_caps, clock, ledger>>

\* ======== Helpers ========

SeqToSet(s) == {s[i] : i \in 1..Len(s)}

\* vector::contains
vector_contains(v, e) == e \in SeqToSet(v)

RECURSIVE SumOver(_, _)
SumOver(S, f) ==
    IF S = {} THEN 0
    ELSE LET x == CHOOSE y \in S : TRUE IN f[x] + SumOver(S \ {x}, f)

\* table::add that takes a key already in the table
table_add_overwrites(tab, k) == FALSE

\* table::add aborts when the key is already in the table
table_add_aborts(tab, k) == k \in DOMAIN tab

\* table::add that leaves the new entry alone in the table
table_add_alone(tab, k, v) == [x \in {k} |-> v]

\* table::add / table::remove on a table held as a function
table_add(tab, k, v) == [x \in DOMAIN tab \cup {k} |-> IF x = k THEN v ELSE tab[x]]
\* the entry left in the table
table_remove_keeps_entry(tab, k) == tab
table_remove(tab, k) == [x \in DOMAIN tab \ {k} |-> tab[x]]

Abort(code) == [code |-> code]

\* an abort that keeps what the call wrote and emitted before it
abort_keeps_writes(code, tr, bal, events) ==
    [code |-> code, tr |-> tr, bal |-> bal, events |-> events]

\* the abort after which the treasury keeps what was written to it
abort_keeps_treasury(code, tr, bal, events) == [code |-> code, tr |-> tr]

\* the abort after which the roll of the daily window stays
abort_keeps_window(code, tr, bal, events) == [code |-> code, tr |-> tr, events |-> events]

\* an abort raised after the call wrote tr and bal and emitted events: the
\* transaction is reverted, none of its writes and events survive
abort_rollback(code, tr, bal, events) == Abort(code)

\* ======== Entry functions as operators ========

\* the age of the window taken modulo 2^w instead of the abort on now < last_reset
update_daily_spending_wrapping(tr, now) ==
    IF (now - tr.last_reset) % (MAX_U64 + 1) >= one_day_ms
    THEN [code |-> OK, tr |-> [tr EXCEPT !.daily_spent = 0, !.last_reset = now]]
    ELSE [code |-> OK, tr |-> tr]

\* the roll that zeroes the counter and keeps last_reset
update_daily_spending_keeps_last_reset(tr, now) ==
    IF now < tr.last_reset THEN Abort(ARITHMETIC_ERROR)
    ELSE IF now - tr.last_reset >= one_day_ms
         THEN [code |-> OK, tr |-> [tr EXCEPT !.daily_spent = 0]]
         ELSE [code |-> OK, tr |-> tr]

\* the window rolled only after more than a day
update_daily_spending_after_a_day(tr, now) ==
    IF now < tr.last_reset THEN Abort(ARITHMETIC_ERROR)
    ELSE IF now - tr.last_reset > one_day_ms
         THEN [code |-> OK, tr |-> [tr EXCEPT !.daily_spent = 0, !.last_reset = now]]
         ELSE [code |-> OK, tr |-> tr]

\* treasury.move:476-484
update_daily_spending(tr, now) ==
    IF now < tr.last_reset THEN Abort(ARITHMETIC_ERROR)
    ELSE IF now - tr.last_reset >= one_day_ms
         THEN [code |-> OK, tr |-> [tr EXCEPT !.daily_spent = 0, !.last_reset = now]]
         ELSE [code |-> OK, tr |-> tr]

\* the balance check made, the coin never taken out of the balance
execute_transfer_takes_nothing(bal, amount) ==
    IF ~(bal.balance >= amount) THEN Abort(E_INSUFFICIENT_BALANCE)
    ELSE [code |-> OK, bal |-> bal]

\* the transfer that does not look at the balance
execute_transfer_unchecked(bal, amount) ==
    [code |-> OK, bal |-> [bal EXCEPT !.balance = bal.balance - amount]]

\* treasury.move:462-474
execute_transfer(bal, amount) ==
    IF ~(bal.balance >= amount) THEN Abort(E_INSUFFICIENT_BALANCE)
    ELSE [code |-> OK, bal |-> [bal EXCEPT !.balance = bal.balance - amount]]

\* the approval id taken from the number of approvals that are pending
create_pending_approval_counts_pending(tr, amount, required_approvals, now) ==
    LET approval_id == Cardinality(DOMAIN tr.pending_approvals) IN
    IF tr.approval_counter + 1 > MAX_U64 \/ now + APPROVAL_TTL_MS > MAX_U64
    THEN Abort(ARITHMETIC_ERROR)
    ELSE IF table_add_aborts(tr.pending_approvals, approval_id) THEN Abort(EFieldAlreadyExists)
    ELSE [code |-> OK,
          tr |-> [tr EXCEPT
                    !.approval_counter = tr.approval_counter + 1,
                    !.pending_approvals = table_add(tr.pending_approvals, approval_id,
                        [id |-> approval_id, amount |-> amount, approvals |-> <<>>,
                         required_approvals |-> required_approvals,
                         created_at |-> now, expires_at |-> now + APPROVAL_TTL_MS])],
          ret |-> approval_id,
          events |-> <<[type |-> "ApprovalRequested", treasury_id |-> tr.id,
                        approval_id |-> approval_id, amount |-> amount,
                        required_approvals |-> required_approvals]>>]

\* treasury.move:423-460
create_pending_approval(tr, amount, required_approvals, now) ==
    LET approval_id == tr.approval_counter IN
    IF tr.approval_counter + 1 > MAX_U64 \/ now + APPROVAL_TTL_MS > MAX_U64
    THEN Abort(ARITHMETIC_ERROR)
    ELSE IF table_add_aborts(tr.pending_approvals, approval_id) THEN Abort(EFieldAlreadyExists)
    ELSE [code |-> OK,
          tr |-> [tr EXCEPT
                    !.approval_counter = tr.approval_counter + 1,
                    !.pending_approvals = table_add(tr.pending_approvals, approval_id,
                        [id |-> approval_id, amount |-> amount, approvals |-> <<>>,
                         required_approvals |-> required_approvals,
                         created_at |-> now, expires_at |-> now + APPROVAL_TTL_MS])],
          ret |-> approval_id,
          events |-> <<[type |-> "ApprovalRequested", treasury_id |-> tr.id,
                        approval_id |-> approval_id, amount |-> amount,
                        required_approvals |-> required_approvals]>>]

\* the limit check made without the amount being allocated
within_daily_limit_no_amount(tr, amount) == tr.daily_spent <= tr.daily_limit

\* treasury.move:242, the daily limit check of allocate_agent_budget
within_daily_limit(tr, amount) == tr.daily_spent + amount <= tr.daily_limit

\* the budget check made without what the agent spent before
within_budget_ignoring_spent(allocation, amount) == amount <= allocation.allocated_amount

\* treasury.move:299, the budget check of agent_transfer
within_budget(allocation, amount) ==
    allocation.spent_amount + amount <= allocation.allocated_amount

\* routing by the hot threshold: above it a transfer needs approval
requires_approval_above_hot(tr, amount) == amount > tr.hot_threshold

\* treasury.move:302, the routing decision of agent_transfer
requires_approval(tr, amount) == amount >= tr.cold_threshold

\* the quorum taken as met by the first approval
threshold_met_by_one(approvals, required_approvals) == Len(approvals) >= 1

\* the quorum taken for met only when it is exceeded
threshold_met_past_quorum(approvals, required_approvals) == Len(approvals) > required_approvals

\* the quorum never taken for met
threshold_met_never(approvals, required_approvals) == FALSE

\* treasury.move:369, the quorum test of approve_transaction
threshold_met(approvals, required_approvals) == Len(approvals) >= required_approvals

\* treasury.move:151-209; id is the fresh object id of the new Treasury; the number
\* of signers is cast to u8 (line 165), and the cast of a number above 255 aborts
initialize_treasury(id, cold_threshold, hot_threshold, daily_limit, multisig_signers, multisig_threshold, now) ==
    IF ~(cold_threshold > hot_threshold) THEN Abort(E_INVALID_THRESHOLD)
    ELSE IF ~(multisig_threshold > 0) THEN Abort(E_INVALID_THRESHOLD)
    ELSE IF Len(multisig_signers) > MAX_U8 THEN Abort(ARITHMETIC_ERROR)
    ELSE IF ~(multisig_threshold <= Len(multisig_signers)) THEN Abort(E_INVALID_THRESHOLD)
    ELSE [code |-> OK,
          tr |-> [id |-> id,
                  cold_threshold |-> cold_threshold,
                  hot_threshold |-> hot_threshold,
                  emergency_mode |-> FALSE,
                  multisig_signers |-> multisig_signers,
                  multisig_threshold |-> multisig_threshold,
                  daily_limit |-> daily_limit,
                  daily_spent |-> 0,
                  last_reset |-> now,
                  agent_allocations |-> <<>>,
                  pending_approvals |-> <<>>,
                  approval_counter |-> 0],
          admin_cap |-> [treasury_id |-> id],
          bal |-> [balance |-> 0, treasury_id |-> id],
          events |-> <<[type |-> "TreasuryCreated", treasury_id |-> id,
                        cold_threshold |-> cold_threshold,
                        hot_threshold |-> hot_threshold]>>]

\* the deposit that a frozen treasury refuses
deposit_refused_when_frozen(tr, bal, payment) ==
    IF ~(tr.id = bal.treasury_id) THEN Abort(E_NOT_AUTHORIZED)
    ELSE IF tr.emergency_mode THEN Abort(E_EMERGENCY_MODE_ACTIVE)
    ELSE [code |-> OK, tr |-> tr,
          bal |-> [bal EXCEPT !.balance = bal.balance + payment], events |-> <<>>]

\* the deposit that leaves the payment out of the balance
deposit_drops_payment(tr, bal, payment) ==
    IF ~(tr.id = bal.treasury_id) THEN Abort(E_NOT_AUTHORIZED)
    ELSE [code |-> OK, tr |-> tr, bal |-> bal, events |-> <<>>]

\* the balance joined modulo 2^w
deposit_wrapping(tr, bal, payment) ==
    IF ~(tr.id = bal.treasury_id) THEN Abort(E_NOT_AUTHORIZED)
    ELSE [code |-> OK, tr |-> tr,
          bal |-> [bal EXCEPT !.balance = (bal.balance + payment) % (MAX_U64 + 1)],
          events |-> <<>>]

\* treasury.move:212-225 (no event is emitted)
deposit(tr, bal, payment) ==
    IF ~(tr.id = bal.treasury_id) THEN Abort(E_NOT_AUTHORIZED)
    ELSE IF bal.balance + payment > MAX_U64 THEN Abort(ARITHMETIC_ERROR)
    ELSE [code |-> OK, tr |-> tr,
          bal |-> [bal EXCEPT !.balance = bal.balance + payment],
          events |-> <<>>]

\* the capability minted for the whole daily limit
allocate_agent_budget_wide_cap(tr, agent_id, amount, security_level, duration_ms, admin_cap, now) ==
    IF ~(tr.id = admin_cap.treasury_id) THEN Abort(E_NOT_AUTHORIZED)
    ELSE IF ~(~tr.emergency_mode) THEN Abort(E_EMERGENCY_MODE_ACTIVE)
    ELSE LET u == update_daily_spending(tr, now) IN
    IF u.code # OK THEN Abort(u.code)
    ELSE LET t1 == u.tr IN
    IF t1.daily_spent + amount > MAX_U64
    THEN abort_rollback(ARITHMETIC_ERROR, t1, <<>>, <<>>)
    ELSE IF ~within_daily_limit(t1, amount)
    THEN abort_rollback(E_DAILY_LIMIT_EXCEEDED, t1, <<>>, <<>>)
    ELSE IF now + duration_ms > MAX_U64
    THEN abort_rollback(ARITHMETIC_ERROR, t1, <<>>, <<>>)
    ELSE IF table_add_aborts(t1.agent_allocations, agent_id)
    THEN abort_rollback(EFieldAlreadyExists, t1, <<>>, <<>>)
    ELSE LET expires_at == now + duration_ms
             allocation == [agent_id |-> agent_id, allocated_amount |-> amount,
                            spent_amount |-> 0, security_level |-> security_level,
                            created_at |-> now, expires_at |-> expires_at]
             agent_cap == [agent_id |-> agent_id, treasury_id |-> tr.id,
                           max_amount |-> tr.daily_limit, expires_at |-> expires_at]
         IN [code |-> OK,
             tr |-> [t1 EXCEPT
                       !.agent_allocations = table_add(t1.agent_allocations, agent_id, allocation),
                       !.daily_spent = t1.daily_spent + amount],
             ret |-> agent_cap,
             events |-> <<[type |-> "AgentAllocated", treasury_id |-> tr.id,
                           agent_id |-> agent_id, amount |-> amount,
                           security_level |-> security_level]>>]

\* treasury.move:228-275
allocate_agent_budget(tr, agent_id, amount, security_level, duration_ms, admin_cap, now) ==
    IF ~(tr.id = admin_cap.treasury_id) THEN Abort(E_NOT_AUTHORIZED)
    ELSE IF ~(~tr.emergency_mode) THEN Abort(E_EMERGENCY_MODE_ACTIVE)
    ELSE LET u == update_daily_spending(tr, now) IN
    IF u.code # OK THEN Abort(u.code)
    ELSE LET t1 == u.tr IN
    IF t1.daily_spent + amount > MAX_U64
    THEN abort_rollback(ARITHMETIC_ERROR, t1, <<>>, <<>>)
    ELSE IF ~within_daily_limit(t1, amount)
    THEN abort_rollback(E_DAILY_LIMIT_EXCEEDED, t1, <<>>, <<>>)
    ELSE IF now + duration_ms > MAX_U64
    THEN abort_rollback(ARITHMETIC_ERROR, t1, <<>>, <<>>)
    ELSE IF table_add_aborts(t1.agent_allocations, agent_id)
    THEN abort_rollback(EFieldAlreadyExists, t1, <<>>, <<>>)
    ELSE LET expires_at == now + duration_ms
             allocation == [agent_id |-> agent_id, allocated_amount |-> amount,
                            spent_amount |-> 0, security_level |-> security_level,
                            created_at |-> now, expires_at |-> expires_at]
             agent_cap == [agent_id |-> agent_id, treasury_id |-> tr.id,
                           max_amount |-> amount, expires_at |-> expires_at]
         IN [code |-> OK,
             tr |-> [t1 EXCEPT
                       !.agent_allocations = table_add(t1.agent_allocations, agent_id, allocation),
                       !.daily_spent = t1.daily_spent + amount],
             ret |-> agent_cap,
             events |-> <<[type |-> "AgentAllocated", treasury_id |-> tr.id,
                           agent_id |-> agent_id, amount |-> amount,
                           security_level |-> security_level]>>]

\* the capability that never expires
capability_valid_always(agent_cap, now) == TRUE

\* treasury.move:294, the expiry check of agent_transfer
capability_valid(agent_cap, now) == now <= agent_cap.expires_at

\* treasury.move:278-337
agent_transfer(tr, bal, agent_cap, amount, now) ==
    IF ~(tr.id = agent_cap.treasury_id) THEN Abort(E_NOT_AUTHORIZED)
    ELSE IF ~(tr.id = bal.treasury_id) THEN Abort(E_NOT_AUTHORIZED)
    ELSE IF ~(~tr.emergency_mode) THEN Abort(E_EMERGENCY_MODE_ACTIVE)
    ELSE IF ~(amount <= agent_cap.max_amount) THEN Abort(E_INSUFFICIENT_BALANCE)
    ELSE IF ~capability_valid(agent_cap, now) THEN Abort(E_INVALID_AGENT_ID)
    ELSE IF ~(agent_cap.agent_id \in DOMAIN tr.agent_allocations) THEN Abort(E_INVALID_AGENT_ID)
    ELSE LET allocation == tr.agent_allocations[agent_cap.agent_id] IN
    IF allocation.spent_amount + amount > MAX_U64 THEN Abort(ARITHMETIC_ERROR)
    ELSE IF ~within_budget(allocation, amount) THEN Abort(E_INSUFFICIENT_BALANCE)
    ELSE IF requires_approval(tr, amount)
         THEN LET p == create_pending_approval(tr, amount, tr.multisig_threshold, now) IN
              IF p.code # OK THEN Abort(p.code)
              ELSE [code |-> OK, tr |-> p.tr, bal |-> bal,
                    ret |-> <<p.ret>>, events |-> p.events]
         ELSE LET x == execute_transfer(bal, amount) IN
              IF x.code # OK THEN Abort(x.code)
              ELSE [code |-> OK,
                    tr |-> [tr EXCEPT !.agent_allocations[agent_cap.agent_id].spent_amount =
                                          allocation.spent_amount + amount],
                    bal |-> x.bal,
                    ret |-> <<>>,
                    events |-> <<[type |-> "FundsTransferred", treasury_id |-> tr.id,
                                  amount |-> amount, approval_mode |-> 0,
                                  approval_id |-> <<>>]>>]

\* the lookup that takes an approval past its expires_at for absent
approval_pending_and_fresh(tr, approval_id) ==
    /\ approval_id \in DOMAIN tr.pending_approvals
    /\ clock <= tr.pending_approvals[approval_id].expires_at

\* treasury.move:347, table::contains(&treasury.pending_approvals, approval_id)
approval_pending(tr, approval_id) == approval_id \in DOMAIN tr.pending_approvals

\* treasury.move:340-391
approve_transaction(tr, bal, approval_id, approver_addr) ==
    IF ~(~tr.emergency_mode) THEN Abort(E_EMERGENCY_MODE_ACTIVE)
    ELSE IF ~approval_pending(tr, approval_id) THEN Abort(E_INVALID_AGENT_ID)
    ELSE LET approval == tr.pending_approvals[approval_id] IN
    IF ~vector_contains(tr.multisig_signers, approver_addr) THEN Abort(E_NOT_AUTHORIZED)
    ELSE IF ~(~vector_contains(approval.approvals, approver_addr)) THEN Abort(E_NOT_AUTHORIZED)
    ELSE LET approvals == Append(approval.approvals, approver_addr)
             provided == [type |-> "ApprovalProvided", treasury_id |-> tr.id,
                          approval_id |-> approval_id, approver |-> approver_addr,
                          total_approvals |-> Len(approvals)]
         IN
         IF threshold_met(approvals, approval.required_approvals)
         THEN LET x == execute_transfer(bal, approval.amount) IN
              IF x.code # OK
              THEN abort_rollback(x.code,
                                  [tr EXCEPT !.pending_approvals[approval_id].approvals = approvals],
                                  bal, <<provided>>)
              ELSE [code |-> OK,
                    tr |-> [tr EXCEPT !.pending_approvals =
                                          table_remove(tr.pending_approvals, approval_id)],
                    bal |-> x.bal,
                    executed |-> TRUE,
                    events |-> <<provided,
                                 [type |-> "FundsTransferred", treasury_id |-> tr.id,
                                  amount |-> approval.amount, approval_mode |-> 2,
                                  approval_id |-> <<approval_id>>]>>]
         ELSE [code |-> OK,
               tr |-> [tr EXCEPT !.pending_approvals[approval_id].approvals = approvals],
               bal |-> bal,
               executed |-> FALSE,
               events |-> <<provided>>]

\* the freeze that takes any admin capability
emergency_stop_any_cap(tr, admin_cap) ==
    [code |-> OK, tr |-> [tr EXCEPT !.emergency_mode = TRUE],
     events |-> <<[type |-> "EmergencyActivated", treasury_id |-> tr.id]>>]

\* treasury.move:394-409
emergency_stop(tr, admin_cap) ==
    IF ~(tr.id = admin_cap.treasury_id) THEN Abort(E_NOT_AUTHORIZED)
    ELSE [code |-> OK, tr |-> [tr EXCEPT !.emergency_mode = TRUE],
          events |-> <<[type |-> "EmergencyActivated", treasury_id |-> tr.id]>>]

\* the unfreeze that also starts a new daily count
deactivate_emergency_resets_daily(tr, admin_cap) ==
    IF ~(tr.id = admin_cap.treasury_id) THEN Abort(E_NOT_AUTHORIZED)
    ELSE [code |-> OK, tr |-> [tr EXCEPT !.emergency_mode = FALSE, !.daily_spent = 0],
          events |-> <<>>]

\* treasury.move:412-419 (no event is emitted)
deactivate_emergency(tr, admin_cap) ==
    IF ~(tr.id = admin_cap.treasury_id) THEN Abort(E_NOT_AUTHORIZED)
    ELSE [code |-> OK, tr |-> [tr EXCEPT !.emergency_mode = FALSE], events |-> <<>>]

\* ======== View functions ========

get_treasury_balance(bal) == bal.balance
get_daily_spending(tr) == <<tr.daily_spent, tr.daily_limit>>
is_emergency_mode(tr) == tr.emergency_mode

\* ======== State machine ========

\* History of debits (no object of the contract):
\*   agent[<<t, a>>]     total amount debited for transfers requested by agent a of t
\*   approval[<<t, id>>] total amount debited on account of pending approval id of t
\*   opened[<<t, id>>]   the agent and the amount of the transfer that opened
\*                       pending approval id of t
NoLedger == [agent |-> <<>>, approval |-> <<>>, opened |-> <<>>]

Debited(tab, k) == IF k \in DOMAIN tab THEN tab[k] ELSE 0
Credit(tab, k, amount) == table_add(tab, k, Debited(tab, k) + amount)

TotalBalance == SumOver(DOMAIN balance_obj, [b \in DOMAIN balance_obj |-> balance_obj[b].balance])
TotalApprovals == SumOver(DOMAIN treasury, [t \in DOMAIN treasury |-> treasury[t].approval_counter])

Init ==
    /\ treasury = <<>>
    /\ balance_obj = <<>>
    /\ admin_caps = {}
    /\ agent_caps = {}
    /\ clock = 0
    /\ ledger = NoLedger

\* the Clock object takes a later timestamp (the timestamp of the Sui Clock never
\* runs backwards)
ClockSet(c) ==
    /\ c > clock
    /\ clock' = c
    /\ UNCHANGED <<treasury, balance_obj, admin_caps, agent_caps, ledger>>

Initialize(ids, ct, ht, dl, signers, mt) ==
    LET id == Cardinality(DOMAIN treasury) + 1
        r == initialize_treasury(id, ct, ht, dl, signers, mt, clock)
    IN /\ id \in ids
       /\ r.code = OK
       /\ treasury' = table_add(treasury, id, r.tr)
       /\ balance_obj' = table_add(balance_obj, id, r.bal)
       /\ admin_caps' = admin_caps \cup {r.admin_cap}
       /\ UNCHANGED <<agent_caps, clock, ledger>>

Deposit(t, b, payment) ==
    LET r == deposit(treasury[t], balance_obj[b], payment)
    IN /\ TotalBalance + payment <= MaxBalance
       /\ r.code = OK
       /\ balance_obj' = [balance_obj EXCEPT ![b] = r.bal]
       /\ UNCHANGED <<treasury, admin_caps, agent_caps, clock, ledger>>

Allocate(t, agent_id, amount, security_level, duration_ms, admin_cap) ==
    LET r == allocate_agent_budget(treasury[t], agent_id, amount, security_level,
                                   duration_ms, admin_cap, clock)
    IN /\ r.code = OK
       /\ treasury' = [treasury EXCEPT ![t] = r.tr]
       /\ agent_caps' = agent_caps \cup {r.ret}
       /\ UNCHANGED <<balance_obj, admin_caps, clock, ledger>>

Transfer(t, b, agent_cap, amount) ==
    LET r == agent_transfer(treasury[t], balance_obj[b], agent_cap, amount, clock)
        k == <<t, agent_cap.agent_id>>
    IN /\ r.code = OK
       /\ r.ret # <<>> => TotalApprovals < MaxApprovals
       /\ treasury' = [treasury EXCEPT ![t] = r.tr]
       /\ balance_obj' = [balance_obj EXCEPT ![b] = r.bal]
       /\ ledger' = IF r.ret = <<>>
                    THEN [ledger EXCEPT !.agent = Credit(ledger.agent, k, amount)]
                    ELSE [ledger EXCEPT !.opened =
                             table_add(ledger.opened, <<t, r.ret[1]>>,
                                       [agent |-> agent_cap.agent_id, amount |-> amount])]
       /\ UNCHANGED <<admin_caps, agent_caps, clock>>

Approve(t, b, approval_id, sender) ==
    LET r == approve_transaction(treasury[t], balance_obj[b], approval_id, sender)
        k == <<t, approval_id>>
    IN /\ r.code = OK
       /\ treasury' = [treasury EXCEPT ![t] = r.tr]
       /\ balance_obj' = [balance_obj EXCEPT ![b] = r.bal]
       /\ ledger' = IF r.executed
                    THEN LET amount == treasury[t].pending_approvals[approval_id].amount
                         IN [ledger EXCEPT
                               !.approval = Credit(ledger.approval, k, amount),
                               !.agent = Credit(ledger.agent,
                                                <<t, ledger.opened[k].agent>>, amount)]
                    ELSE ledger
       /\ UNCHANGED <<admin_caps, agent_caps, clock>>

EmergencyStop(t, admin_cap) ==
    LET r == emergency_stop(treasury[t], admin_cap)
    IN /\ r.code = OK
       /\ treasury' = [treasury EXCEPT ![t] = r.tr]
       /\ UNCHANGED <<balance_obj, admin_caps, agent_caps, clock, ledger>>

DeactivateEmergency(t, admin_cap) ==
    LET r == deactivate_emergency(treasury[t], admin_cap)
    IN /\ r.code = OK
       /\ treasury' = [treasury EXCEPT ![t] = r.tr]
       /\ UNCHANGED <<balance_obj, admin_caps, agent_caps, clock, ledger>>

\* approval ids a caller may name: every id issued so far and one never issued
ApprovalIds == 0..MaxApprovals

\* the input sets of an exploration
Inputs(ids, agents, hots, durations) ==
    [ids |-> ids, agents |-> agents, hots |-> hots, durations |-> durations,
     signers |-> SignerLists, clocks |-> Clocks]

\* the transactions, with arguments drawn from the input sets (in, where they vary)
SomeClockSet(in) == \E c \in in.clocks : ClockSet(c)

SomeInitialize(in) ==
    \E ct \in ColdThresholds, ht \in in.hots, dl \in DailyLimits,
       signers \in in.signers, mt \in MultisigThresholds :
       Initialize(in.ids, ct, ht, dl, signers, mt)

SomeDeposit ==
    \E t \in DOMAIN treasury, b \in DOMAIN balance_obj, payment \in Amounts :
       Deposit(t, b, payment)

SomeAllocate(in) ==
    \E t \in DOMAIN treasury, agent_id \in in.agents, amount \in Amounts,
       security_level \in SecurityLevels, duration_ms \in in.durations,
       admin_cap \in admin_caps :
       Allocate(t, agent_id, amount, security_level, duration_ms, admin_cap)

SomeTransfer ==
    \E t \in DOMAIN treasury, b \in DOMAIN balance_obj, agent_cap \in agent_caps,
       amount \in Amounts :
       Transfer(t, b, agent_cap, amount)

SomeApprove ==
    \E t \in DOMAIN treasury, b \in DOMAIN balance_obj, approval_id \in ApprovalIds,
       sender \in Senders :
       Approve(t, b, approval_id, sender)

SomeEmergencyStop ==
    \E t \in DOMAIN treasury, admin_cap \in admin_caps : EmergencyStop(t, admin_cap)

SomeDeactivateEmergency ==
    \E t \in DOMAIN treasury, admin_cap \in admin_caps : DeactivateEmergency(t, admin_cap)

NextOver(in) ==
    \/ SomeClockSet(in)
    \/ SomeInitialize(in)
    \/ SomeDeposit
    \/ SomeAllocate(in)
    \/ SomeTransfer
    \/ SomeApprove
    \/ SomeEmergencyStop
    \/ SomeDeactivateEmergency

\* one treasury instance, two agents, every hot threshold
Next == NextOver(Inputs({1}, AgentIds, HotThresholds, Durations))
Spec == Init /\ [][Next]_vars

\* two treasury instances, one agent id, one accepted hot threshold
NextTwo == NextOver(Inputs(TreasuryIds, {"A"}, {0, 2}, Durations))
SpecTwo == Init /\ [][NextTwo]_vars

\* one treasury instance and one agent, with more of the inputs: a signer list that
\* names one address twice, allocations that last a day, a clock that passes the
\* expiry of a pending approval
LateClocks == {0, one_day_ms, 2 * one_day_ms}
NextWide ==
    NextOver([Inputs({1}, {"A"}, {0}, {0, one_day_ms}) EXCEPT
                 !.signers = {<<"s1", "s2">>, <<"s1", "s1">>},
                 !.clocks = LateClocks])
SpecWide == Init /\ [][NextWide]_vars

\* one treasury instance and one agent, and a Clock whose timestamp may also be set
\* back, as a test scenario sets it
ClockBack(c) ==
    /\ c < clock
    /\ clock' = c
    /\ UNCHANGED <<treasury, balance_obj, admin_caps, agent_caps, ledger>>

SomeClockBack == \E c \in Clocks : ClockBack(c)

NextAnyClock ==
    \/ NextOver(Inputs({1}, {"A"}, {0}, Durations))
    \/ SomeClockBack
SpecAnyClock == Init /\ [][NextAnyClock]_vars

\* ======== Properties ========

Allocations(t) == treasury[t].agent_allocations
Pending(t) == treasury[t].pending_approvals

\* the error kinds of the specification and the abort codes that carry them
\* (treasury.move:29-36); CapabilityExpired, DuplicateApprover and
\* DuplicateAgentAllocation have no abort code of their own
ErrorKind(code) ==
    CASE code = E_NOT_AUTHORIZED -> "Unauthorized"
      [] code = E_INSUFFICIENT_BALANCE -> "InsufficientBalance"
      [] code = E_INVALID_THRESHOLD -> "InvalidThreshold"
      [] code = E_EMERGENCY_MODE_ACTIVE -> "EmergencyModeActive"
      [] code = E_DAILY_LIMIT_EXCEEDED -> "DailyLimitExceeded"
      [] code = E_INVALID_AGENT_ID -> "NotFound"
      [] OTHER -> code

\* while treasury t is frozen, every allocate, transfer and approve call presenting
\* a capability bound to t (and, for a transfer, the balance of t) aborts with
\* E_EMERGENCY_MODE_ACTIVE
C1_FrozenCallsFail ==
    \A t \in DOMAIN treasury : treasury[t].emergency_mode =>
        /\ \A cap \in admin_caps, a \in AgentIds, amount \in Amounts,
              l \in SecurityLevels, d \in Durations :
              cap.treasury_id = t =>
                 allocate_agent_budget(treasury[t], a, amount, l, d, cap, clock).code
                    = E_EMERGENCY_MODE_ACTIVE
        /\ \A cap \in agent_caps, amount \in Amounts :
              cap.treasury_id = t =>
                 agent_transfer(treasury[t], balance_obj[t], cap, amount, clock).code
                    = E_EMERGENCY_MODE_ACTIVE
        /\ \A b \in DOMAIN balance_obj, id \in ApprovalIds, sender \in Senders :
              approve_transaction(treasury[t], balance_obj[b], id, sender).code
                 = E_EMERGENCY_MODE_ACTIVE

\* no step taken while treasury t is frozen decreases the balance of t
C1_FrozenBalanceStep ==
    \A t \in DOMAIN treasury :
        treasury[t].emergency_mode => balance_obj'[t].balance >= balance_obj[t].balance

\* C1: in every state where the emergency flag is set, each allocate, transfer and
\* approve call with a capability bound to the treasury fails with
\* EmergencyModeActive, and no step taken while the flag is set decreases the
\* pooled balance.
C1_EmergencyFreeze == []C1_FrozenCallsFail /\ [][C1_FrozenBalanceStep]_vars

\* C2: in every reachable state, whatever calls were made at whatever clock values,
\* 0 <= daily_spent <= daily_limit holds for every treasury.
C2_DailySpentWithinLimit ==
    \A t \in DOMAIN treasury :
        /\ 0 <= treasury[t].daily_spent
        /\ treasury[t].daily_spent <= treasury[t].daily_limit

\* the window rolled after a first allocation, and the allocations made in the two
\* windows add up to more than the daily limit
C2_Witness ==
    \E t \in DOMAIN treasury :
        /\ treasury[t].last_reset = one_day_ms
        /\ treasury[t].daily_spent > 0
        /\ \E a \in DOMAIN Allocations(t) : Allocations(t)[a].created_at = 0
        /\ SumOver(DOMAIN Allocations(t),
                   [a \in DOMAIN Allocations(t) |-> Allocations(t)[a].allocated_amount])
              > treasury[t].daily_limit

\* a step that changes spent_amount of allocation a of treasury t is an immediate
\* transfer of agent a that passed the budget check on the state before the step
C3_SpentStep(t, a) ==
    LET old == treasury[t].agent_allocations[a]
        new == treasury'[t].agent_allocations[a]
    IN new.spent_amount # old.spent_amount =>
          \E b \in DOMAIN balance_obj, cap \in agent_caps, amount \in Amounts :
              /\ Transfer(t, b, cap, amount)
              /\ cap.agent_id = a
              /\ amount < treasury[t].cold_threshold
              /\ old.spent_amount + amount <= old.allocated_amount
              /\ new.spent_amount = old.spent_amount + amount

\* C3: every allocation has spent_amount <= allocated_amount after every step, and
\* spent_amount changes only by an immediate (below-threshold) transfer whose
\* budget check spent + amount <= allocated passed in the same call.
C3_SpentWithinAllocated ==
    [][\A t \in DOMAIN treasury' : \A a \in DOMAIN treasury'[t].agent_allocations :
          /\ treasury'[t].agent_allocations[a].spent_amount
                <= treasury'[t].agent_allocations[a].allocated_amount
          /\ (t \in DOMAIN treasury /\ a \in DOMAIN treasury[t].agent_allocations)
                => C3_SpentStep(t, a)]_vars

\* an allocation spent to the last unit by immediate transfers
C3_Witness ==
    \E t \in DOMAIN treasury : \E a \in DOMAIN Allocations(t) :
        /\ Allocations(t)[a].spent_amount = Allocations(t)[a].allocated_amount
        /\ Debited(ledger.agent, <<t, a>>) >= Allocations(t)[a].allocated_amount

\* C4: for every agent, the total debited from the treasury for transfers the
\* agent requested (immediate ones and ones executed at quorum) never exceeds
\* the agent's allocated amount.
C4_AgentDebitWithinAllocation ==
    \A t \in DOMAIN treasury : \A a \in DOMAIN Allocations(t) :
        Debited(ledger.agent, <<t, a>>) <= Allocations(t)[a].allocated_amount

\* C5: no deposit, transfer or approve call made against one treasury changes the
\* balance of another treasury.
C5_LedgerOwnedByTreasury ==
    [][\A t \in DOMAIN treasury, b \in DOMAIN balance_obj :
          (\/ \E payment \in Amounts : Deposit(t, b, payment)
           \/ \E cap \in agent_caps, amount \in Amounts : Transfer(t, b, cap, amount)
           \/ \E id \in ApprovalIds, sender \in Senders : Approve(t, b, id, sender))
          => \A o \in DOMAIN balance_obj \ {t} : balance_obj'[o] = balance_obj[o]]_vars

\* the effect of a successful approve on pending approval id of treasury t
C6_ApproveStep(t, b, id, sender) ==
    Approve(t, b, id, sender) =>
        LET p == Pending(t)[id] IN
        IF Len(p.approvals) + 1 >= p.required_approvals
        THEN /\ balance_obj'[t].balance = balance_obj[t].balance - p.amount
             /\ id \notin DOMAIN treasury'[t].pending_approvals
             /\ treasury'[t].agent_allocations = treasury[t].agent_allocations
        ELSE /\ treasury'[t] = [treasury[t] EXCEPT
                                  !.pending_approvals[id].approvals = Append(p.approvals, sender)]
             /\ balance_obj' = balance_obj

\* C6: a successful approve that brings the approvers of a pending approval to its
\* required_approvals decreases the treasury's balance by exactly the pending
\* amount, deletes the pending approval in the same step and leaves every
\* spent_amount unchanged; one that stays below adds the approver and changes
\* nothing else.
C6_QuorumExecution ==
    [][\A t \in DOMAIN treasury, b \in DOMAIN balance_obj, id \in ApprovalIds,
          sender \in Senders : C6_ApproveStep(t, b, id, sender)]_vars

\* C7: an approve by an identity that already approved the pending approval fails
\* with the error kind DuplicateApprover.
C7_DuplicateApproverKind ==
    \A t \in DOMAIN treasury, b \in DOMAIN balance_obj, sender \in Senders :
        \A id \in DOMAIN Pending(t) :
            vector_contains(Pending(t)[id].approvals, sender) =>
                ErrorKind(approve_transaction(treasury[t], balance_obj[b], id, sender).code)
                    = "DuplicateApprover"

\* pending approval k = <<t, id>> has been executed
Executed(k) == Debited(ledger.approval, k) > 0

\* what was debited for an approval id is nothing or its amount, and an executed
\* approval is no longer pending
C8_DebitedOnce ==
    \A k \in DOMAIN ledger.opened :
        /\ Debited(ledger.approval, k) \in {0, ledger.opened[k].amount}
        /\ Executed(k) => k[2] \notin DOMAIN Pending(k[1])

\* the debit for an approval id and the deletion of its entry are one step
C8_DebitStep ==
    \A k \in DOMAIN ledger.opened :
        Debited(ledger.approval', k) # Debited(ledger.approval, k) =>
            /\ k[2] \in DOMAIN Pending(k[1])
            /\ k[2] \notin DOMAIN treasury'[k[1]].pending_approvals

\* every approve on an executed approval id aborts with E_INVALID_AGENT_ID (NotFound)
C8_LaterApproveNotFound ==
    \A k \in DOMAIN ledger.opened : Executed(k) =>
        \A b \in DOMAIN balance_obj, sender \in Senders :
            approve_transaction(treasury[k[1]], balance_obj[b], k[2], sender).code
                = E_INVALID_AGENT_ID

\* C8 as stated: a pending approval is executed at most once, its entry is deleted in
\* the step of its debit, and every later approve on the id fails with NotFound.
C8_ExecutedAtMostOnce ==
    /\ [](C8_DebitedOnce /\ C8_LaterApproveNotFound)
    /\ [][C8_DebitStep]_vars

\* every approve on an executed approval id aborts: with E_EMERGENCY_MODE_ACTIVE
\* while the treasury is frozen, with E_INVALID_AGENT_ID otherwise
C8_LaterApproveFails ==
    \A k \in DOMAIN ledger.opened : Executed(k) =>
        \A b \in DOMAIN balance_obj, sender \in Senders :
            approve_transaction(treasury[k[1]], balance_obj[b], k[2], sender).code
                = IF treasury[k[1]].emergency_mode
                  THEN E_EMERGENCY_MODE_ACTIVE ELSE E_INVALID_AGENT_ID

\* C8 amended: a pending approval is executed at most once, its entry is deleted in
\* the step of its debit, and every later approve on the id fails - with NotFound
\* while the treasury is not frozen, with EmergencyModeActive while it is.
C8_ExecutedAtMostOnceAmended ==
    /\ [](C8_DebitedOnce /\ C8_LaterApproveFails)
    /\ [][C8_DebitStep]_vars

\* an approval was executed, a later approval is pending, the treasury is not frozen
C8_Witness ==
    \E k \in DOMAIN ledger.opened :
        /\ Executed(k)
        /\ ~treasury[k[1]].emergency_mode
        /\ DOMAIN Pending(k[1]) # {}

\* the effect of a successful transfer, by the side of cold_threshold its amount is on
C9_RoutedStep(t, b, cap, amount) ==
    Transfer(t, b, cap, amount) =>
        LET tr == treasury[t]
            r == agent_transfer(tr, balance_obj[b], cap, amount, clock)
        IN IF amount >= tr.cold_threshold
           THEN /\ r.ret = <<tr.approval_counter>>
                /\ tr.approval_counter \notin DOMAIN tr.pending_approvals
                /\ tr.approval_counter \in DOMAIN treasury'[t].pending_approvals
                /\ treasury'[t].pending_approvals[tr.approval_counter].amount = amount
                /\ balance_obj' = balance_obj
                /\ treasury'[t].agent_allocations = tr.agent_allocations
           ELSE /\ r.ret = <<>>
                /\ balance_obj'[t].balance = balance_obj[t].balance - amount
                /\ treasury'[t].pending_approvals = tr.pending_approvals

WithHot(tr, h) == [tr EXCEPT !.hot_threshold = h]

\* outcome r2 of a call on WithHot(tr, h) is outcome r of the call on tr
SameButHot(r, r2, h) ==
    /\ r2.code = r.code
    /\ r.code = OK => r2 = [r EXCEPT !.tr = WithHot(r.tr, h)]

\* every call gives, on the treasury with the other accepted hot threshold, the same
\* outcome and the same treasury but for the hot threshold
C9_HotThresholdUnread ==
    \A t \in DOMAIN treasury :
        \A h \in {x \in HotThresholds : x < treasury[t].cold_threshold
                                          /\ x # treasury[t].hot_threshold} :
            LET tr == treasury[t]
                th == WithHot(tr, h)
            IN /\ \A b \in DOMAIN balance_obj, cap \in agent_caps, amount \in Amounts :
                     SameButHot(agent_transfer(tr, balance_obj[b], cap, amount, clock),
                                agent_transfer(th, balance_obj[b], cap, amount, clock), h)
               /\ \A b \in DOMAIN balance_obj, id \in ApprovalIds, sender \in Senders :
                     SameButHot(approve_transaction(tr, balance_obj[b], id, sender),
                                approve_transaction(th, balance_obj[b], id, sender), h)
               /\ \A b \in DOMAIN balance_obj, payment \in Amounts :
                     SameButHot(deposit(tr, balance_obj[b], payment),
                                deposit(th, balance_obj[b], payment), h)
               /\ \A cap \in admin_caps, a \in AgentIds, amount \in Amounts,
                     l \in SecurityLevels, d \in Durations :
                     SameButHot(allocate_agent_budget(tr, a, amount, l, d, cap, clock),
                                allocate_agent_budget(th, a, amount, l, d, cap, clock), h)
               /\ \A cap \in admin_caps :
                     /\ SameButHot(emergency_stop(tr, cap), emergency_stop(th, cap), h)
                     /\ SameButHot(deactivate_emergency(tr, cap),
                                   deactivate_emergency(th, cap), h)

C10_ImmediateStep(t, b, cap, amount) ==
    (Transfer(t, b, cap, amount) /\ amount < treasury[t].cold_threshold) =>
        LET tr == treasury[t]
            a == cap.agent_id
        IN /\ balance_obj' = [balance_obj EXCEPT ![t].balance = balance_obj[t].balance - amount]
           /\ treasury'[t] = [tr EXCEPT !.agent_allocations[a].spent_amount =
                                           tr.agent_allocations[a].spent_amount + amount]
           /\ agent_transfer(tr, balance_obj[b], cap, amount, clock).ret = <<>>

\* Scenario A: cold threshold 100000, daily limit 60000, signers s1 s2 s3, 2 required;
\* deposit 50000, allocate 5000 to A for an hour, transfer 4000
C10_ScenarioA ==
    LET i == initialize_treasury(1, 100000, 10000, 60000, <<"s1", "s2", "s3">>, 2, 0)
        d == deposit(i.tr, i.bal, 50000)
        al == allocate_agent_budget(d.tr, "A", 5000, 1, 3600000, i.admin_cap, 0)
        x == agent_transfer(al.tr, d.bal, al.ret, 4000, 0)
    IN /\ x.code = OK
       /\ x.ret = <<>>
       /\ get_treasury_balance(x.bal) = 46000
       /\ x.tr.agent_allocations["A"].spent_amount = 4000
       /\ x.tr.pending_approvals = <<>>
       /\ x.tr.approval_counter = 0

\* C10: a transfer below cold_threshold that passes every check decreases the balance
\* by exactly amount, increases the agent's spent_amount by exactly amount, returns
\* no id, and leaves pending approvals and the approval counter alone.
C10_ImmediatePath ==
    /\ []C10_ScenarioA
    /\ [][\A t \in DOMAIN treasury, b \in DOMAIN balance_obj, cap \in agent_caps,
             amount \in Amounts : C10_ImmediateStep(t, b, cap, amount)]_vars

\* an agent made two immediate transfers while a pending approval was open
C10_Witness ==
    \E t \in DOMAIN treasury : \E a \in DOMAIN Allocations(t) :
        /\ Allocations(t)[a].spent_amount = 2
        /\ Debited(ledger.agent, <<t, a>>) = 2
        /\ DOMAIN Pending(t) # {}

C11_FeasibleScenarioB ==
    LET i == initialize_treasury(1, 100000, 10000, 150000, <<"s1", "s2", "s3">>, 2, clock)
        d == deposit(i.tr, i.bal, 120000)
        al == allocate_agent_budget(d.tr, "B", 150000, 1, 3600000, i.admin_cap, clock)
        x == agent_transfer(al.tr, d.bal, al.ret, 120000, clock)
        id == x.ret[1]
        a1 == approve_transaction(x.tr, x.bal, id, "s1")
        again == approve_transaction(a1.tr, a1.bal, id, "s1")
        a2 == approve_transaction(a1.tr, a1.bal, id, "s2")
    IN /\ al.code = OK
       /\ al.ret.max_amount = 150000
       /\ x.code = OK
       /\ x.ret = <<0>>
       /\ x.bal = d.bal
       /\ a1.code = OK
       /\ ~a1.executed
       /\ a1.tr.pending_approvals[id].approvals = <<"s1">>
       /\ a1.tr.pending_approvals[id].required_approvals = 2
       /\ a1.bal = d.bal
       /\ again.code # OK
       /\ again = Abort(again.code)
       /\ a2.code = OK
       /\ a2.executed
       /\ a2.bal.balance = 0
       /\ id \notin DOMAIN a2.tr.pending_approvals

\* in the setup of Scenario A itself the capability of Scenario B cannot be minted,
\* and the quorum for 120000 finds a balance of 50000
C11_SetupOfScenarioA ==
    LET i == initialize_treasury(1, 100000, 10000, 60000, <<"s1", "s2", "s3">>, 2, clock)
        d == deposit(i.tr, i.bal, 50000)
    IN /\ allocate_agent_budget(d.tr, "B", 150000, 1, 3600000, i.admin_cap, clock).code
             = E_DAILY_LIMIT_EXCEEDED
       /\ execute_transfer(d.bal, 120000).code = E_INSUFFICIENT_BALANCE

AllAttemptsFail(tr) ==
    /\ \A cap \in admin_caps, a \in AgentIds, amount \in Amounts,
          l \in SecurityLevels, d \in Durations :
          allocate_agent_budget(tr, a, amount, l, d, cap, clock).code # OK
    /\ \A b \in DOMAIN balance_obj, cap \in agent_caps, amount \in Amounts :
          agent_transfer(tr, balance_obj[b], cap, amount, clock).code # OK
    /\ \A b \in DOMAIN balance_obj, id \in ApprovalIds, sender \in Senders :
          approve_transaction(tr, balance_obj[b], id, sender).code # OK

\* freeze, then unfreeze, with the treasury's own admin capability: between the two
\* every allocate, transfer and approve fails, and the treasury after unfreeze is the
\* treasury before freeze (with the flag clear)
C12_RoundTrip ==
    \A t \in DOMAIN treasury : \A cap \in admin_caps : cap.treasury_id = t =>
        LET tr == treasury[t]
            f == emergency_stop(tr, cap)
            u == deactivate_emergency(f.tr, cap)
        IN /\ f.code = OK
           /\ f.tr = [tr EXCEPT !.emergency_mode = TRUE]
           /\ AllAttemptsFail(f.tr)
           /\ u.code = OK
           /\ u.tr = [tr EXCEPT !.emergency_mode = FALSE]
           /\ ~tr.emergency_mode => u.tr = tr

\* a freeze or unfreeze step changes the emergency flag of its treasury and nothing else
C12_FlagStep ==
    \A t \in DOMAIN treasury : \A cap \in admin_caps :
        /\ EmergencyStop(t, cap) =>
              /\ treasury' = [treasury EXCEPT ![t].emergency_mode = TRUE]
              /\ UNCHANGED <<balance_obj, admin_caps, agent_caps, clock>>
        /\ DeactivateEmergency(t, cap) =>
              /\ treasury' = [treasury EXCEPT ![t].emergency_mode = FALSE]
              /\ UNCHANGED <<balance_obj, admin_caps, agent_caps, clock>>

\* C12 (Scenario C round trip): freeze followed by unfreeze, with failed allocate,
\* transfer and approve attempts in between, leaves balance, daily_spent, last_reset,
\* allocations, pending approvals with their approvals and the approval counter as
\* they were before the freeze; freeze and unfreeze change nothing but the flag.
C12_FreezeUnfreezeRoundTrip == []C12_RoundTrip /\ [][C12_FlagStep]_vars

\* a frozen treasury with money, a part-spent allocation, a daily count and a pending
\* approval that holds one approval
C12_Witness ==
    \E t \in DOMAIN treasury :
        /\ treasury[t].emergency_mode
        /\ balance_obj[t].balance > 0
        /\ treasury[t].daily_spent > 0
        /\ \E a \in DOMAIN Allocations(t) : Allocations(t)[a].spent_amount > 0
        /\ \E id \in DOMAIN Pending(t) : Len(Pending(t)[id].approvals) = 1

\* outcome r of a call on treasury tr and balance bal is a failure or changes neither
FailsOrChangesNothing(r, tr, bal) == r.code # OK \/ (r.tr = tr /\ r.bal = bal)

\* on a frozen treasury every deposit, allocate, transfer and approve fails or changes
\* nothing
C13_FrozenCallsNoOps ==
    \A t \in DOMAIN treasury : treasury[t].emergency_mode =>
        /\ AllAttemptsFail(treasury[t])
        /\ \A b \in DOMAIN balance_obj, payment \in Amounts :
              FailsOrChangesNothing(deposit(treasury[t], balance_obj[b], payment),
                                    treasury[t], balance_obj[b])

\* a step that changes a frozen treasury or its balance is an unfreeze of it
C13_OnlyUnfreezeStep ==
    \A t \in DOMAIN treasury :
        (/\ treasury[t].emergency_mode
         /\ treasury'[t] # treasury[t] \/ balance_obj'[t] # balance_obj[t])
        => \E cap \in admin_caps : DeactivateEmergency(t, cap)

C13_FrozenCallsButDeposit ==
    \A t \in DOMAIN treasury : treasury[t].emergency_mode =>
        /\ AllAttemptsFail(treasury[t])
        /\ \A b \in DOMAIN balance_obj, payment \in Amounts :
              deposit(treasury[t], balance_obj[b], payment) =
                 IF b = t
                 THEN [code |-> OK, tr |-> treasury[t],
                       bal |-> [balance_obj[t] EXCEPT !.balance = @ + payment],
                       events |-> <<>>]
                 ELSE Abort(E_NOT_AUTHORIZED)

\* a step that changes a frozen Treasury object is an unfreeze of it with its own
\* admin capability, and clears the flag only
C13_TreasuryUnfreezeStep ==
    \A t \in DOMAIN treasury :
        (treasury[t].emergency_mode /\ treasury'[t] # treasury[t]) =>
            /\ \E cap \in admin_caps : cap.treasury_id = t /\ DeactivateEmergency(t, cap)
            /\ treasury'[t] = [treasury[t] EXCEPT !.emergency_mode = FALSE]

left_by(pre, r) == [x \in DOMAIN pre |-> IF x \in DOMAIN r THEN r[x] ELSE pre[x]]

\* the outcome r of a call is a success, or leaves pre as it was: it carries none of
\* the objects, or the objects it carries are those of pre
FailureLeaves(pre, r) ==
    r.code # OK => (DOMAIN r \cap DOMAIN pre = {} \/ left_by(pre, r) = pre)

\* every failing initialize_treasury creates no object and emits no event
C14_FailedInitialize ==
    LET pre == [tr |-> <<>>, bal |-> <<>>, admin_cap |-> <<>>, events |-> <<>>]
    IN \A ct \in ColdThresholds, ht \in HotThresholds, dl \in DailyLimits,
          signers \in SignerLists, mt \in MultisigThresholds :
          FailureLeaves(pre, initialize_treasury(Cardinality(DOMAIN treasury) + 1,
                                                 ct, ht, dl, signers, mt, clock))

NonSignerCodes(t) ==
    {approve_transaction(treasury[t], balance_obj[t], id, s).code :
        id \in DOMAIN Pending(t), s \in Senders \ SeqToSet(treasury[t].multisig_signers)}

RepeatedApproverCodes(t) ==
    UNION {{approve_transaction(treasury[t], balance_obj[t], id, s).code :
               s \in SeqToSet(Pending(t)[id].approvals)} : id \in DOMAIN Pending(t)}

UnknownIdCodes(t) ==
    {approve_transaction(treasury[t], balance_obj[t], id, s).code :
        id \in ApprovalIds \ DOMAIN Pending(t), s \in Senders}

ExpiredCapabilityCodes(t) ==
    UNION {{agent_transfer(treasury[t], balance_obj[t], cap, amount, clock).code :
               amount \in {x \in Amounts : x <= cap.max_amount}} :
           cap \in {c \in agent_caps : c.treasury_id = t /\ clock > c.expires_at}}

\* allocate calls with the treasury's own admin capability, by agent ids and amounts
AllocateCodes(t, agents, amounts) ==
    {allocate_agent_budget(treasury[t], a, amount, l, d, [treasury_id |-> t], clock).code :
        a \in agents, amount \in amounts, l \in SecurityLevels, d \in Durations}

DuplicateAllocationCodes(t) ==
    LET u == update_daily_spending(treasury[t], clock).tr
    IN AllocateCodes(t, DOMAIN Allocations(t),
                     {x \in Amounts : u.daily_spent + x <= u.daily_limit})

DailyLimitCodes(t) ==
    LET u == update_daily_spending(treasury[t], clock).tr
    IN AllocateCodes(t, AgentIds \ DOMAIN Allocations(t),
                     {x \in Amounts : u.daily_spent + x > u.daily_limit})

\* C15: each failure cause has its own error kind: non-signer approve and repeated
\* approve differ; a transfer with an expired capability and an approve on an unknown
\* id differ; a duplicate allocation and an exceeded daily limit differ.
C15_DistinctErrorKinds ==
    \A t \in DOMAIN treasury : ~treasury[t].emergency_mode =>
        /\ NonSignerCodes(t) \cap RepeatedApproverCodes(t) = {}
        /\ ExpiredCapabilityCodes(t) \cap UnknownIdCodes(t) = {}
        /\ DuplicateAllocationCodes(t) \cap DailyLimitCodes(t) = {}

\* the part of C15 about allocate: a duplicate allocation aborts by table::add,
\* an exceeded daily limit with E_DAILY_LIMIT_EXCEEDED
C15_AllocationKindsDiffer ==
    \A t \in DOMAIN treasury : ~treasury[t].emergency_mode =>
        /\ DuplicateAllocationCodes(t) \subseteq {EFieldAlreadyExists}
        /\ DailyLimitCodes(t) \subseteq {E_DAILY_LIMIT_EXCEEDED}

\* the codes the other causes share
C15_SharedCodes ==
    \A t \in DOMAIN treasury : ~treasury[t].emergency_mode =>
        /\ NonSignerCodes(t) \cup RepeatedApproverCodes(t) \subseteq {E_NOT_AUTHORIZED}
        /\ ExpiredCapabilityCodes(t) \cup UnknownIdCodes(t) \subseteq {E_INVALID_AGENT_ID}

\* the admin capability bound to treasury t
OwnAdminCap(t) == [treasury_id |-> t]

\* allocate, freeze and unfreeze with an admin capability bound to another treasury
\* abort with E_NOT_AUTHORIZED, frozen or not
C16_ForeignCapFails ==
    \A t \in DOMAIN treasury : \A cap \in admin_caps : cap.treasury_id # t =>
        /\ \A a \in AgentIds, amount \in Amounts, l \in SecurityLevels, d \in Durations :
              allocate_agent_budget(treasury[t], a, amount, l, d, cap, clock)
                 = Abort(E_NOT_AUTHORIZED)
        /\ emergency_stop(treasury[t], cap) = Abort(E_NOT_AUTHORIZED)
        /\ deactivate_emergency(treasury[t], cap) = Abort(E_NOT_AUTHORIZED)

\* a step that changes the emergency flag of t is a freeze or unfreeze carrying the
\* admin capability of t; a step that adds an allocation to t is an allocate
\* carrying it
C16_AdminStep ==
    \A t \in DOMAIN treasury :
        /\ treasury'[t].emergency_mode # treasury[t].emergency_mode =>
              /\ OwnAdminCap(t) \in admin_caps
              /\ EmergencyStop(t, OwnAdminCap(t)) \/ DeactivateEmergency(t, OwnAdminCap(t))
        /\ DOMAIN treasury'[t].agent_allocations # DOMAIN treasury[t].agent_allocations =>
              /\ OwnAdminCap(t) \in admin_caps
              /\ \E a \in AgentIds, amount \in Amounts, l \in SecurityLevels,
                    d \in Durations : Allocate(t, a, amount, l, d, OwnAdminCap(t))

\* C16: allocate, freeze and unfreeze called with an admin capability bound to a
\* different treasury fail with Unauthorized; the emergency flag changes only by a
\* freeze or unfreeze carrying the treasury's own admin capability, and an
\* allocation is only created by an allocate carrying it.
C16_AdminCapabilityRequired == []C16_ForeignCapFails /\ [][C16_AdminStep]_vars

\* two treasuries, each with its admin capability: one frozen, the other with an
\* allocation
C16_Witness ==
    /\ {OwnAdminCap(1), OwnAdminCap(2)} \subseteq admin_caps
    /\ \E t \in DOMAIN treasury, o \in DOMAIN treasury :
          /\ t # o
          /\ treasury[t].emergency_mode
          /\ ~treasury[o].emergency_mode
          /\ DOMAIN Allocations(o) # {}

\* inputs of allocate beyond the ones the exploration takes steps with
AllocateAmounts == 0..4
AllocateLevels == {0, 3}
AllocateDurations == {0, 3600000}

\* the capabilities minted for agent a of treasury t
CapsOf(t, a) == {c \in agent_caps : c.treasury_id = t /\ c.agent_id = a}

DuplicateAllocateCode(tr, amount, cap) ==
    LET u == update_daily_spending(tr, clock).tr
    IN IF cap.treasury_id # tr.id THEN E_NOT_AUTHORIZED
       ELSE IF tr.emergency_mode THEN E_EMERGENCY_MODE_ACTIVE
       ELSE IF u.daily_spent + amount > u.daily_limit THEN E_DAILY_LIMIT_EXCEEDED
       ELSE EFieldAlreadyExists

\* an allocate for an agent id that has an allocation aborts, with the code of the
\* first check it fails, and the agent has the one capability of its allocation
C17_DuplicateAllocateAborts ==
    \A t \in DOMAIN treasury : \A a \in DOMAIN Allocations(t) :
        /\ \A cap \in admin_caps, amount \in AllocateAmounts, l \in AllocateLevels,
              d \in AllocateDurations :
              allocate_agent_budget(treasury[t], a, amount, l, d, cap, clock)
                 = Abort(DuplicateAllocateCode(treasury[t], amount, cap))
        /\ CapsOf(t, a) = {[agent_id |-> a, treasury_id |-> t,
                            max_amount |-> Allocations(t)[a].allocated_amount,
                            expires_at |-> Allocations(t)[a].expires_at]}

\* no step replaces an allocation: but for spent_amount it stays what it was
C17_AllocationKeptStep ==
    \A t \in DOMAIN treasury : \A a \in DOMAIN Allocations(t) :
        /\ a \in DOMAIN treasury'[t].agent_allocations
        /\ [treasury'[t].agent_allocations[a] EXCEPT !.spent_amount = 0]
              = [Allocations(t)[a] EXCEPT !.spent_amount = 0]

DailyLimitBoundary(tr, admin_cap, a) ==
    LET u == update_daily_spending(tr, clock).tr
        room == u.daily_limit - u.daily_spent
    IN \A l \in AllocateLevels, d \in AllocateDurations :
          LET at == allocate_agent_budget(tr, a, room, l, d, admin_cap, clock)
              over == allocate_agent_budget(tr, a, room + 1, l, d, admin_cap, clock)
          IN /\ at.code = OK
             /\ at.tr.daily_spent = at.tr.daily_limit
             /\ at.tr.daily_limit = tr.daily_limit
             /\ over = Abort(E_DAILY_LIMIT_EXCEEDED)

\* the boundary on every treasury of the exploration that is not frozen
C18_BoundaryInRange ==
    \A t \in DOMAIN treasury : ~treasury[t].emergency_mode =>
        \A a \in (AgentIds \cup {"Z"}) \ DOMAIN Allocations(t) :
            DailyLimitBoundary(treasury[t], OwnAdminCap(t), a)

\* the boundary on a treasury whose daily limit is the largest u64, after an
\* allocation of 1
C18_BoundaryAtU64 ==
    LET i == initialize_treasury(1, 2, 0, MAX_U64, <<"s1", "s2">>, 2, clock)
        al == allocate_agent_budget(i.tr, "A", 1, 1, 0, i.admin_cap, clock)
    IN DailyLimitBoundary(al.tr, i.admin_cap, "B")

\* C18: on a treasury that is not frozen, with its admin capability and a fresh
\* agent id, allocate with amount = daily_limit - daily_spent (after the window roll)
\* succeeds and leaves daily_spent = daily_limit, and allocate with one more fails
\* with DailyLimitExceeded.
C18_DailyLimitBoundary == C18_BoundaryInRange /\ C18_BoundaryAtU64

\* payments offered to deposit, the empty coin among them
Payments == 0..(MaxBalance + 1)

\* deposit of any payment with the treasury's own balance succeeds, frozen or not:
\* the balance read by get_treasury_balance grows by the payment, the treasury is
\* returned as it was, no event is emitted
C19_DepositAccepted ==
    \A t \in DOMAIN treasury : \A x \in Payments :
        LET r == deposit(treasury[t], balance_obj[t], x)
        IN /\ r.code = OK
           /\ get_treasury_balance(r.bal) = get_treasury_balance(balance_obj[t]) + x
           /\ r.bal.treasury_id = t
           /\ r.tr = treasury[t]
           /\ r.events = <<>>

\* a deposit step is made with the treasury's own balance and changes that balance
\* by the payment, and nothing else
C19_DepositStep ==
    balance_obj' # balance_obj =>
        \A t \in DOMAIN treasury, b \in DOMAIN balance_obj, payment \in Amounts :
            Deposit(t, b, payment) =>
                /\ b = t
                /\ balance_obj' = [balance_obj EXCEPT ![t].balance = @ + payment]
                /\ UNCHANGED <<treasury, admin_caps, agent_caps, clock>>

InitThresholds == 0..3
InitDailyLimits == {0, 3}
InitSignerLists == {<<>>, <<"s1">>, <<"s1", "s2">>, <<"s1", "s2", "x">>}
\* a signer list one longer than a u8 counts (which addresses it holds plays no part)
ManySigners == [i \in 1..(MAX_U8 + 1) |-> IF i = 1 THEN "s1" ELSE IF i = 2 THEN "s2" ELSE "x"]

\* for signer lists from the set lists: initialize_treasury succeeds exactly on
\* cold_threshold > hot_threshold and 1 <= multisig_threshold <= number of signers,
\* gives the initial objects then, and aborts with E_INVALID_THRESHOLD otherwise
InitializeOutcome(lists) ==
    \A ct \in InitThresholds, ht \in InitThresholds, dl \in InitDailyLimits,
       signers \in lists, mt \in InitThresholds :
        LET id == Cardinality(DOMAIN treasury) + 1
            r == initialize_treasury(id, ct, ht, dl, signers, mt, clock)
        IN IF ct > ht /\ mt >= 1 /\ mt <= Len(signers)
           THEN /\ r.code = OK
                /\ get_treasury_balance(r.bal) = 0
                /\ r.bal.treasury_id = id
                /\ r.admin_cap.treasury_id = id
                /\ r.tr = [id |-> id, cold_threshold |-> ct, hot_threshold |-> ht,
                           emergency_mode |-> FALSE, multisig_signers |-> signers,
                           multisig_threshold |-> mt, daily_limit |-> dl,
                           daily_spent |-> 0, last_reset |-> clock,
                           agent_allocations |-> <<>>, pending_approvals |-> <<>>,
                           approval_counter |-> 0]
           ELSE r = Abort(E_INVALID_THRESHOLD)

\* a step that creates a treasury creates it with an accepted configuration and in
\* the initial state, with its empty balance and its admin capability
C20_InitializeStep ==
    \A id \in DOMAIN treasury' \ DOMAIN treasury :
        LET tr == treasury'[id] IN
        /\ tr.cold_threshold > tr.hot_threshold
        /\ tr.multisig_threshold >= 1
        /\ tr.multisig_threshold <= Len(tr.multisig_signers)
        /\ tr.daily_spent = 0
        /\ tr.last_reset = clock
        /\ ~tr.emergency_mode
        /\ tr.agent_allocations = <<>>
        /\ tr.pending_approvals = <<>>
        /\ tr.approval_counter = 0
        /\ balance_obj'[id] = [balance |-> 0, treasury_id |-> id]
        /\ admin_caps' = admin_caps \cup {[treasury_id |-> id]}
        /\ \A o \in DOMAIN treasury : treasury'[o] = treasury[o]

\* C20: initialize succeeds if and only if cold_threshold > hot_threshold,
\* multisig_threshold >= 1 and multisig_threshold <= number of signers, and fails
\* with InvalidThreshold creating nothing otherwise; on success the treasury has
\* balance 0, daily_spent 0, last_reset = now, the flag clear, no allocations, no
\* pending approvals and approval counter 0.
C20_InitializeIff ==
    /\ [](InitializeOutcome(InitSignerLists) /\ InitializeOutcome({ManySigners}))
    /\ [][C20_InitializeStep]_vars

\* the statement of C20 for every list of at most 255 signers that was tried
C20_InitializeUpTo255Signers ==
    /\ [](InitializeOutcome(InitSignerLists \cup {SubSeq(ManySigners, 1, MAX_U8)}))
    /\ [][C20_InitializeStep]_vars


\* ---------------------------------------------------------------------------
\* C21  In every reachable state each treasury has
\*      1 <= multisig_threshold <= the number of distinct addresses in
\*      multisig_signers, so that enough distinct approvers exist for a quorum.
\*      (initialize_treasury compares the threshold with the length of the
\*      vector, and approve_transaction counts an address once.)
C21_QuorumWithinDistinctSigners ==
    \A t \in DOMAIN treasury :
        /\ treasury[t].multisig_threshold >= 1
        /\ treasury[t].multisig_threshold
              <= Cardinality(SeqToSet(treasury[t].multisig_signers))

\* what lines 164-165 do establish: the threshold is within the length of the list
C21_QuorumWithinListLength ==
    \A t \in DOMAIN treasury :
        /\ treasury[t].multisig_threshold >= 1
        /\ treasury[t].multisig_threshold <= Len(treasury[t].multisig_signers)

\* a pending approval that no approve can complete: every signer has approved and
\* the threshold is not met
C21_StuckApproval ==
    \E t \in DOMAIN treasury : \E id \in DOMAIN Pending(t) :
        /\ SeqToSet(treasury[t].multisig_signers) \subseteq SeqToSet(Pending(t)[id].approvals)
        /\ ~threshold_met(Pending(t)[id].approvals, Pending(t)[id].required_approvals)


\* ---------------------------------------------------------------------------
\* C22  Approval ids are strictly increasing and never reused: a transfer routed to
\*      approval gets the id approval_counter, greater than every id issued before
\*      on that treasury, executed and deleted ones included; an immediate transfer
\*      and every other call leave approval_counter alone.
IssuedIds(t) == {k[2] : k \in {j \in DOMAIN ledger.opened : j[1] = t}}

\* every id issued so far, pending or executed, is below approval_counter
C22_IssuedBelowCounter ==
    \A t \in DOMAIN treasury :
        /\ \A id \in IssuedIds(t) \cup DOMAIN Pending(t) : id < treasury[t].approval_counter
        /\ \A id \in DOMAIN Pending(t) : Pending(t)[id].id = id

C22_IssueStep ==
    \A t \in DOMAIN treasury :
        LET new == DOMAIN treasury'[t].pending_approvals \ DOMAIN Pending(t) IN
        /\ \A id \in new :
              /\ id = treasury[t].approval_counter
              /\ treasury'[t].approval_counter = id + 1
              /\ \A j \in IssuedIds(t) : j < id
        /\ new = {} => treasury'[t].approval_counter = treasury[t].approval_counter
        /\ \A b \in DOMAIN balance_obj, agent_cap \in agent_caps, amount \in Amounts :
              Transfer(t, b, agent_cap, amount) =>
                 LET r == agent_transfer(treasury[t], balance_obj[b], agent_cap, amount, clock)
                 IN IF r.ret = <<>> THEN new = {} ELSE new = {r.ret[1]}

C22_ApprovalIdsNeverReused == []C22_IssuedBelowCounter /\ [][C22_IssueStep]_vars

\* approval 0 of a treasury was executed and deleted, and a later transfer of that
\* treasury waits for approval under id 1
C22_Witness ==
    \E t \in DOMAIN treasury :
        /\ Executed(<<t, 0>>)
        /\ 0 \notin DOMAIN Pending(t)
        /\ 1 \in DOMAIN Pending(t)
        /\ \E a \in DOMAIN Allocations(t) : Debited(ledger.agent, <<t, a>>) > ledger.opened[<<t, 0>>].amount


\* ---------------------------------------------------------------------------
\* C23  expires_at of a pending approval is never enforced: an entry leaves
\*      pending_approvals only through the approve that reaches the quorum, every
\*      other step (a later clock, deposit, allocate, transfer, freeze, unfreeze)
\*      leaves it as it is, and the outcome of an approve is the same before and
\*      after expires_at.

\* the outcome of an approve of a pending approval, decided without the clock
ApproveOutcome(tr, bal, approval, approver_addr) ==
    IF tr.emergency_mode THEN E_EMERGENCY_MODE_ACTIVE
    ELSE IF approver_addr \notin SeqToSet(tr.multisig_signers) THEN E_NOT_AUTHORIZED
    ELSE IF approver_addr \in SeqToSet(approval.approvals) THEN E_NOT_AUTHORIZED
    ELSE IF /\ Len(approval.approvals) + 1 >= approval.required_approvals
            /\ approval.amount > bal.balance
         THEN E_INSUFFICIENT_BALANCE
    ELSE OK

C23_ApproveAtAnyTime ==
    \A t \in DOMAIN treasury : \A id \in DOMAIN Pending(t) : \A sender \in Senders :
        approve_transaction(treasury[t], balance_obj[t], id, sender).code
           = ApproveOutcome(treasury[t], balance_obj[t], Pending(t)[id], sender)

C23_PendingStep ==
    \A t \in DOMAIN treasury : \A id \in DOMAIN Pending(t) :
        LET approval == Pending(t)[id]
            ApprovedBy(sender) == \E b \in DOMAIN balance_obj : Approve(t, b, id, sender)
        IN IF id \in DOMAIN treasury'[t].pending_approvals
           THEN \/ treasury'[t].pending_approvals[id] = approval
                \/ \E sender \in Senders :
                      /\ ApprovedBy(sender)
                      /\ treasury'[t].pending_approvals[id]
                            = [approval EXCEPT !.approvals = Append(@, sender)]
           ELSE \E sender \in Senders :
                   /\ ApprovedBy(sender)
                   /\ Len(approval.approvals) + 1 >= approval.required_approvals

C23_ExpiryNeverEnforced == []C23_ApproveAtAnyTime /\ [][C23_PendingStep]_vars

\* the clock is past expires_at of a pending approval that has one approval, and
\* the approve of the second signer succeeds and executes the transfer
C23_Witness ==
    \E t \in DOMAIN treasury : \E id \in DOMAIN Pending(t) :
        /\ clock > Pending(t)[id].expires_at
        /\ Len(Pending(t)[id].approvals) = 1
        /\ \E sender \in Senders :
              LET r == approve_transaction(treasury[t], balance_obj[t], id, sender)
              IN r.code = OK /\ r.executed


\* ---------------------------------------------------------------------------
\* C24  Every successful call that changes the state emits at least one event:
\*      initialize, deposit, allocate, transfer on either route, approve, freeze
\*      and unfreeze.
C24_InitializeEmits ==
    \A ct \in ColdThresholds, ht \in HotThresholds, dl \in DailyLimits,
       signers \in SignerLists, mt \in MultisigThresholds :
        Initialize(TreasuryIds, ct, ht, dl, signers, mt) =>
           initialize_treasury(Cardinality(DOMAIN treasury) + 1, ct, ht, dl, signers, mt,
                               clock).events # <<>>

C24_DepositEmits ==
    \A t \in DOMAIN treasury, b \in DOMAIN balance_obj, payment \in Amounts :
        Deposit(t, b, payment) =>
           deposit(treasury[t], balance_obj[b], payment).events # <<>>

C24_AllocateEmits ==
    \A t \in DOMAIN treasury, agent_id \in AgentIds, amount \in Amounts,
       security_level \in SecurityLevels, duration_ms \in Durations,
       admin_cap \in admin_caps :
        Allocate(t, agent_id, amount, security_level, duration_ms, admin_cap) =>
           allocate_agent_budget(treasury[t], agent_id, amount, security_level,
                                 duration_ms, admin_cap, clock).events # <<>>

C24_TransferEmits ==
    \A t \in DOMAIN treasury, b \in DOMAIN balance_obj, agent_cap \in agent_caps,
       amount \in Amounts :
        Transfer(t, b, agent_cap, amount) =>
           agent_transfer(treasury[t], balance_obj[b], agent_cap, amount, clock).events # <<>>

C24_ApproveEmits ==
    \A t \in DOMAIN treasury, b \in DOMAIN balance_obj, approval_id \in ApprovalIds,
       sender \in Senders :
        Approve(t, b, approval_id, sender) =>
           approve_transaction(treasury[t], balance_obj[b], approval_id, sender).events # <<>>

C24_FreezeEmits ==
    \A t \in DOMAIN treasury, admin_cap \in admin_caps :
        EmergencyStop(t, admin_cap) => emergency_stop(treasury[t], admin_cap).events # <<>>

C24_UnfreezeEmits ==
    \A t \in DOMAIN treasury, admin_cap \in admin_caps :
        DeactivateEmergency(t, admin_cap) =>
           deactivate_emergency(treasury[t], admin_cap).events # <<>>

\* the calls of C24 but deposit and unfreeze
C24_EmittingStep ==
    /\ C24_InitializeEmits
    /\ C24_AllocateEmits
    /\ C24_TransferEmits
    /\ C24_ApproveEmits
    /\ C24_FreezeEmits

\* C24 as stated; a call that changes nothing is a stuttering step and needs no event
C24_AllMutationsEmit ==
    [][C24_EmittingStep /\ C24_DepositEmits /\ C24_UnfreezeEmits]_vars

C24_DepositEmitsAnEvent == [][C24_DepositEmits]_vars
C24_UnfreezeEmitsAnEvent == [][C24_UnfreezeEmits]_vars
C24_OtherMutationsEmit == [][C24_EmittingStep]_vars


\* ---------------------------------------------------------------------------
\* C25  The failure kind of a transfer is that of the first failing check in the
\*      order: capability of another treasury (Unauthorized), frozen
\*      (EmergencyModeActive), amount > max_amount (InsufficientBalance),
\*      now > expires_at (CapabilityExpired), no allocation for the agent
\*      (UnknownAgent), spent + amount > allocated (InsufficientBalance) and, on
\*      the immediate route only, amount > balance (InsufficientBalance); a
\*      transfer that meets none of them succeeds.
TransferAmounts == 0..3

\* the kind C25 gives a transfer, with `expired` for the kind of an expired capability
TransferKind(tr, bal, agent_cap, amount, now, expired) ==
    IF agent_cap.treasury_id # tr.id THEN "Unauthorized"
    ELSE IF tr.emergency_mode THEN "EmergencyModeActive"
    ELSE IF amount > agent_cap.max_amount THEN "InsufficientBalance"
    ELSE IF now > agent_cap.expires_at THEN expired
    ELSE IF agent_cap.agent_id \notin DOMAIN tr.agent_allocations THEN "NotFound"
    ELSE IF tr.agent_allocations[agent_cap.agent_id].spent_amount + amount
               > tr.agent_allocations[agent_cap.agent_id].allocated_amount
         THEN "InsufficientBalance"
    ELSE IF amount < tr.cold_threshold /\ amount > bal.balance THEN "InsufficientBalance"
    ELSE OK

TransferKindsAre(tr, bal, caps, amounts, now, expired) ==
    \A agent_cap \in caps, amount \in amounts :
        ErrorKind(agent_transfer(tr, bal, agent_cap, amount, now).code)
           = TransferKind(tr, bal, agent_cap, amount, now, expired)

\* the order of C25 on the treasuries of the exploration, each with its own balance
\* object and every capability minted so far
C25_OrderInRange ==
    \A t \in DOMAIN treasury :
        TransferKindsAre(treasury[t], balance_obj[t], agent_caps, TransferAmounts, clock,
                         "CapabilityExpired")

\* the same, an expired capability reported with the kind of an unknown agent
C25_OrderWithSharedCode ==
    \A t \in DOMAIN treasury :
        TransferKindsAre(treasury[t], balance_obj[t], agent_caps, TransferAmounts, clock,
                         ErrorKind(E_INVALID_AGENT_ID))

\* the budget check on an allocation of the largest u64 of which 1 is spent
C25_OrderAtU64 ==
    LET i == initialize_treasury(1, MAX_U64, 0, MAX_U64, <<"s1", "s2">>, 2, clock)
        al == allocate_agent_budget(i.tr, "A", MAX_U64, 1, 0, i.admin_cap, clock)
        d == deposit(al.tr, i.bal, 1)
        x == agent_transfer(al.tr, d.bal, al.ret, 1, clock)
    IN /\ x.code = OK
       /\ TransferKindsAre(x.tr, x.bal, {al.ret}, {0, 1, MAX_U64 - 1, MAX_U64}, clock,
                           ErrorKind(E_INVALID_AGENT_ID))

C25_TransferCheckOrder == C25_OrderInRange /\ C25_OrderAtU64


\* ---------------------------------------------------------------------------
\* C26  A transfer, on either route, succeeds only at a time now that is at most
\*      expires_at of the capability and at most expires_at of the allocation; at
\*      now = expires_at it is still accepted.

\* a capability and the allocation it was minted with expire together
C26_CapabilityExpiresWithAllocation ==
    \A agent_cap \in agent_caps :
        /\ agent_cap.agent_id \in DOMAIN Allocations(agent_cap.treasury_id)
        /\ Allocations(agent_cap.treasury_id)[agent_cap.agent_id].expires_at
              = agent_cap.expires_at

\* the outcome of a transfer by the side of expires_at the clock is on
C26_ExpiryBoundary ==
    \A t \in DOMAIN treasury : \A agent_cap \in agent_caps : \A amount \in TransferAmounts :
        LET r == agent_transfer(treasury[t], balance_obj[t], agent_cap, amount, clock)
            allocation == Allocations(t)[agent_cap.agent_id]
        IN agent_cap.treasury_id = t =>
              /\ clock > agent_cap.expires_at => r.code # OK
              /\ (/\ clock = agent_cap.expires_at
                  /\ ~treasury[t].emergency_mode
                  /\ allocation.spent_amount + amount <= allocation.allocated_amount
                  /\ amount >= treasury[t].cold_threshold \/ amount <= balance_obj[t].balance)
                 => r.code = OK

C26_TransferStep ==
    \A t \in DOMAIN treasury, b \in DOMAIN balance_obj, agent_cap \in agent_caps,
       amount \in Amounts :
        Transfer(t, b, agent_cap, amount) =>
           /\ clock <= agent_cap.expires_at
           /\ clock <= Allocations(t)[agent_cap.agent_id].expires_at

C26_TransferWithinValidity ==
    /\ [](C26_CapabilityExpiresWithAllocation /\ C26_ExpiryBoundary)
    /\ [][C26_TransferStep]_vars

\* an allocation made after the clock moved, for no longer than the moment it was
\* made at, from which the agent spent: the transfer was made at now = expires_at
C26_Witness ==
    \E t \in DOMAIN treasury : \E a \in DOMAIN Allocations(t) :
        /\ Allocations(t)[a].created_at > 0
        /\ Allocations(t)[a].expires_at = Allocations(t)[a].created_at
        /\ Allocations(t)[a].spent_amount > 0
        /\ \E k \in DOMAIN ledger.opened : k[1] = t /\ ledger.opened[k].agent = a


\* ---------------------------------------------------------------------------
\* C27  Every call is one indivisible step, so calls issued together take effect in
\*      some sequential order: two immediate transfers of one agent whose amounts
\*      together exceed the remaining budget or the balance never both succeed, in
\*      either order, and two approves by distinct signers execute the pending
\*      transfer exactly once. (A Sui transaction has exclusive access to the shared
\*      objects it takes by &mut, so the entry functions run one after the other;
\*      every step of Next is one whole call.)

\* the second of two calls, made on what the first left, or on the state as it was
\* when the first failed
After(r, tr, bal) == IF r.code = OK THEN [tr |-> r.tr, bal |-> r.bal] ELSE [tr |-> tr, bal |-> bal]

C27_TwoTransfers ==
    \A t \in DOMAIN treasury : \A agent_cap \in agent_caps :
        \A a1 \in TransferAmounts, a2 \in TransferAmounts :
            LET tr == treasury[t]
                bal == balance_obj[t]
                r1 == agent_transfer(tr, bal, agent_cap, a1, clock)
                s1 == After(r1, tr, bal)
                r2 == agent_transfer(s1.tr, s1.bal, agent_cap, a2, clock)
            IN (/\ agent_cap.treasury_id = t
                /\ a1 < tr.cold_threshold
                /\ a2 < tr.cold_threshold
                /\ \/ Allocations(t)[agent_cap.agent_id].spent_amount + a1 + a2
                         > Allocations(t)[agent_cap.agent_id].allocated_amount
                   \/ a1 + a2 > bal.balance)
               => ~(r1.code = OK /\ r2.code = OK)

C27_TwoApproves ==
    \A t \in DOMAIN treasury : \A id \in DOMAIN Pending(t) :
        \A x \in Senders : \A y \in Senders \ {x} :
            LET tr == treasury[t]
                bal == balance_obj[t]
                r1 == approve_transaction(tr, bal, id, x)
                s1 == After(r1, tr, bal)
                r2 == approve_transaction(s1.tr, s1.bal, id, y)
                s2 == After(r2, s1.tr, s1.bal)
                e1 == r1.code = OK /\ r1.executed
                e2 == r2.code = OK /\ r2.executed
            IN /\ ~(e1 /\ e2)
               /\ s2.bal.balance = bal.balance - (IF e1 \/ e2 THEN Pending(t)[id].amount ELSE 0)
               /\ (e1 \/ e2) = (id \notin DOMAIN s2.tr.pending_approvals)
               /\ (/\ r1.code = OK
                   /\ r2.code = OK
                   /\ Len(Pending(t)[id].approvals) + 2 >= Pending(t)[id].required_approvals)
                  => (e1 \/ e2)

AllocateEffect(tr, r, agent_id, amount, security_level, duration_ms, now, base) ==
    LET allocation == [agent_id |-> agent_id, allocated_amount |-> amount,
                       spent_amount |-> 0, security_level |-> security_level,
                       created_at |-> now, expires_at |-> now + duration_ms]
    IN r.code = OK =>
          /\ agent_id \notin DOMAIN tr.agent_allocations
          /\ [r.tr EXCEPT !.last_reset = 0]
                = [tr EXCEPT !.agent_allocations = table_add(@, agent_id, allocation),
                             !.daily_spent = base + amount,
                             !.last_reset = 0]
          /\ r.ret = [agent_id |-> agent_id, treasury_id |-> tr.id,
                      max_amount |-> amount, expires_at |-> now + duration_ms]

\* daily_spent after the lazy roll of the window and before the amount is counted
RolledDailySpent(tr, now) == IF now - tr.last_reset >= 86400000 THEN 0 ELSE tr.daily_spent

AllocateEffects(t, rolled) ==
    \A agent_id \in AgentIds, amount \in AllocateAmounts, security_level \in AllocateLevels,
       duration_ms \in AllocateDurations :
        LET tr == treasury[t]
            r == allocate_agent_budget(tr, agent_id, amount, security_level, duration_ms,
                                       OwnAdminCap(t), clock)
            base == IF rolled THEN RolledDailySpent(tr, clock) ELSE tr.daily_spent
        IN /\ AllocateEffect(tr, r, agent_id, amount, security_level, duration_ms, clock, base)
           /\ rolled =>
                 (r.code = OK <=> /\ ~tr.emergency_mode
                                  /\ base + amount <= tr.daily_limit
                                  /\ agent_id \notin DOMAIN tr.agent_allocations)

\* C28 as stated, daily_spent being amount above what it was before the call
C28_AllocateAddsToDailySpent == \A t \in DOMAIN treasury : AllocateEffects(t, FALSE)

C28_AllocateOutcome == \A t \in DOMAIN treasury : AllocateEffects(t, TRUE)

C28_AllocateStep ==
    \A t \in DOMAIN treasury, agent_id \in AgentIds, amount \in Amounts,
       security_level \in SecurityLevels, duration_ms \in Durations,
       admin_cap \in admin_caps :
        Allocate(t, agent_id, amount, security_level, duration_ms, admin_cap) =>
           /\ balance_obj' = balance_obj
           /\ DOMAIN treasury'[t].agent_allocations = DOMAIN Allocations(t) \cup {agent_id}
           /\ \A a \in DOMAIN Allocations(t) : treasury'[t].agent_allocations[a] = Allocations(t)[a]
           /\ treasury'[t].pending_approvals = Pending(t)
           /\ treasury'[t].emergency_mode = treasury[t].emergency_mode
           /\ treasury'[t].daily_spent = RolledDailySpent(treasury[t], clock) + amount
           /\ \A u \in DOMAIN treasury \ {t} : treasury'[u] = treasury[u]
           /\ \E agent_cap \in agent_caps' :
                 /\ agent_caps' = agent_caps \cup {agent_cap}
                 /\ agent_cap.agent_id = agent_id
                 /\ agent_cap.max_amount = amount
                 /\ agent_cap.expires_at = treasury'[t].agent_allocations[agent_id].expires_at

\* C28 amended: as stated, but daily_spent ends amount above its value after the lazy
\* roll of the daily window: above 0 when now - last_reset >= 86400000, above the
\* previous daily_spent otherwise.
C28_AllocateEffects == []C28_AllocateOutcome /\ [][C28_AllocateStep]_vars

\* a treasury with two allocations, the second made after the window rolled over a
\* counter that was not zero, and with a balance below the amount allocated
C28_Witness ==
    \E t \in DOMAIN treasury : \E a \in DOMAIN Allocations(t), b \in DOMAIN Allocations(t) :
        /\ Allocations(t)[a].created_at < Allocations(t)[b].created_at
        /\ treasury[t].last_reset = Allocations(t)[b].created_at
        /\ treasury[t].daily_spent = Allocations(t)[b].allocated_amount
        /\ balance_obj[t].balance < Allocations(t)[b].allocated_amount


\* ---------------------------------------------------------------------------
\* C29  Lazy daily window: a successful allocate at now with
\*      now - last_reset >= 86400000 (the boundary included) ends with
\*      last_reset = now and daily_spent = amount, the limit being checked against a
\*      zeroed counter; with now - last_reset < 86400000 it leaves last_reset and adds
\*      amount to daily_spent. No other call and no passage of time changes
\*      daily_spent or last_reset.

\* the times an allocate may be made at: now, just before a day from now, a day from
\* now, two days from now
LaterTimes == {clock, clock + 86400000 - 1, clock + 86400000, clock + 2 * 86400000}

C29_AllocateRollsWindow ==
    \A t \in DOMAIN treasury : \A agent_id \in AgentIds \cup {"Z"} :
        \A amount \in AllocateAmounts, now \in LaterTimes :
            LET tr == treasury[t]
                r == allocate_agent_budget(tr, agent_id, amount, 1, 0, OwnAdminCap(t), now)
                rolls == now - tr.last_reset >= 86400000
                counted == IF rolls THEN amount ELSE tr.daily_spent + amount
            IN /\ r.code = OK =>
                    /\ r.tr.last_reset = (IF rolls THEN now ELSE tr.last_reset)
                    /\ r.tr.daily_spent = counted
               /\ (~tr.emergency_mode /\ agent_id \notin DOMAIN tr.agent_allocations) =>
                     (r.code = OK <=> counted <= tr.daily_limit)

C29_WindowStep ==
    \A t \in DOMAIN treasury :
        (\/ treasury'[t].daily_spent # treasury[t].daily_spent
         \/ treasury'[t].last_reset # treasury[t].last_reset)
        => \E agent_id \in AgentIds, amount \in Amounts, security_level \in SecurityLevels,
              duration_ms \in Durations, admin_cap \in admin_caps :
              Allocate(t, agent_id, amount, security_level, duration_ms, admin_cap)

C29_LazyDailyWindow == []C29_AllocateRollsWindow /\ [][C29_WindowStep]_vars

\* an allocation made at time 0 and one made a day later, which rolled the window:
\* daily_spent counts the second only
C29_Witness ==
    \E t \in DOMAIN treasury : \E a \in DOMAIN Allocations(t), b \in DOMAIN Allocations(t) :
        /\ Allocations(t)[a].created_at = 0
        /\ Allocations(t)[b].created_at = 86400000
        /\ treasury[t].last_reset = 86400000
        /\ treasury[t].daily_spent = Allocations(t)[b].allocated_amount
        /\ treasury[t].daily_spent
              < Allocations(t)[a].allocated_amount + Allocations(t)[b].allocated_amount


\* ---------------------------------------------------------------------------
\* C30  Funds are not reserved for pending approvals: the approve that would reach
\*      the quorum while amount > balance fails with InsufficientBalance and leaves
\*      the approval as it was, the approver not added; after a deposit that covers
\*      the amount the same signer approves again and the transfer is executed.
C30_ApproveWithoutFunds ==
    \A t \in DOMAIN treasury : \A id \in DOMAIN Pending(t) : \A sender \in Senders :
        LET tr == treasury[t]
            bal == balance_obj[t]
            approval == Pending(t)[id]
            r == approve_transaction(tr, bal, id, sender)
            d == deposit(tr, bal, approval.amount - bal.balance)
            again == approve_transaction(d.tr, d.bal, id, sender)
        IN (/\ ~tr.emergency_mode
            /\ sender \in SeqToSet(tr.multisig_signers) \ SeqToSet(approval.approvals)
            /\ Len(approval.approvals) + 1 >= approval.required_approvals
            /\ approval.amount > bal.balance)
           => /\ r = Abort(E_INSUFFICIENT_BALANCE)
              /\ d.code = OK
              /\ d.tr.pending_approvals[id] = approval
              /\ again.code = OK
              /\ again.executed
              /\ id \notin DOMAIN again.tr.pending_approvals
              /\ again.bal.balance = 0

\* a pending approval one approval short of its quorum, for more than the balance,
\* and a signer who has not approved it
C30_Witness ==
    \E t \in DOMAIN treasury : \E id \in DOMAIN Pending(t) :
        /\ ~treasury[t].emergency_mode
        /\ Len(Pending(t)[id].approvals) + 1 = Pending(t)[id].required_approvals
        /\ Pending(t)[id].amount > balance_obj[t].balance
        /\ balance_obj[t].balance > 0
        /\ SeqToSet(treasury[t].multisig_signers) \ SeqToSet(Pending(t)[id].approvals) # {}


\* ---------------------------------------------------------------------------
\* C31  A failed allocate does not roll the daily window: an allocate made at now
\*      with now - last_reset >= 86400000 that fails, with DailyLimitExceeded because
\*      amount > daily_limit or because the agent has an allocation, leaves
\*      daily_spent and last_reset as they were before the call, although the window
\*      is rolled before the failing check.
C31_FailedAllocateKeepsWindow ==
    \A t \in DOMAIN treasury : \A agent_id \in AgentIds \cup {"Z"} :
        \A amount \in AllocateAmounts, now \in LaterTimes :
            LET tr == treasury[t]
                r == allocate_agent_budget(tr, agent_id, amount, 1, 0, OwnAdminCap(t), now)
                after == left_by([tr |-> tr], r).tr
            IN (~tr.emergency_mode /\ now - tr.last_reset >= 86400000) =>
                  /\ r.code # OK <=> \/ amount > tr.daily_limit
                                     \/ agent_id \in DOMAIN tr.agent_allocations
                  /\ amount > tr.daily_limit => r.code = E_DAILY_LIMIT_EXCEEDED
                  /\ (amount <= tr.daily_limit /\ agent_id \in DOMAIN tr.agent_allocations)
                        => r.code = EFieldAlreadyExists
                  /\ r.code # OK =>
                        /\ after.daily_spent = tr.daily_spent
                        /\ after.last_reset = tr.last_reset
                        /\ after = tr

\* a day after the last roll, on a treasury that is not frozen, with a counter that
\* is not zero and an agent that has an allocation: an allocate for that agent, and
\* one for more than the daily limit, fail after the roll
C31_Witness ==
    \E t \in DOMAIN treasury :
        /\ ~treasury[t].emergency_mode
        /\ clock - treasury[t].last_reset >= 86400000
        /\ treasury[t].daily_spent > 0
        /\ \E a \in DOMAIN Allocations(t) :
              allocate_agent_budget(treasury[t], a, 1, 1, 0, OwnAdminCap(t), clock).code
                 = EFieldAlreadyExists
        /\ allocate_agent_budget(treasury[t], "Z", treasury[t].daily_limit + 1, 1, 0,
                                 OwnAdminCap(t), clock).code = E_DAILY_LIMIT_EXCEEDED


\* ---------------------------------------------------------------------------
\* C32  The failure kind of approve is that of the first failing check in the order
\*      frozen (EmergencyModeActive), unknown approval id (NotFound), approver not a
\*      signer (Unauthorized), approver already recorded (DuplicateApprover); that of
\*      allocate in the order admin capability of another treasury (Unauthorized),
\*      frozen (EmergencyModeActive), daily_spent + amount > daily_limit
\*      (DailyLimitExceeded), agent already allocated (DuplicateAgentAllocation).

\* the kind C32 gives a failing approve, with `repeated` for the kind of an approver
\* already recorded; OK when none of the four checks fails
ApproveKind(tr, approval_id, approver_addr, repeated) ==
    IF tr.emergency_mode THEN "EmergencyModeActive"
    ELSE IF approval_id \notin DOMAIN tr.pending_approvals THEN "NotFound"
    ELSE IF approver_addr \notin SeqToSet(tr.multisig_signers) THEN "Unauthorized"
    ELSE IF approver_addr \in SeqToSet(tr.pending_approvals[approval_id].approvals) THEN repeated
    ELSE OK

\* the kind C32 gives a failing allocate, the window rolled first
AllocateKind(tr, agent_id, amount, admin_cap, now) ==
    IF admin_cap.treasury_id # tr.id THEN "Unauthorized"
    ELSE IF tr.emergency_mode THEN "EmergencyModeActive"
    ELSE IF RolledDailySpent(tr, now) + amount > tr.daily_limit THEN "DailyLimitExceeded"
    ELSE IF agent_id \in DOMAIN tr.agent_allocations THEN ErrorKind(EFieldAlreadyExists)
    ELSE OK

ApproveKindsAre(repeated) ==
    \A t \in DOMAIN treasury : \A id \in ApprovalIds, sender \in Senders :
        LET r == approve_transaction(treasury[t], balance_obj[t], id, sender)
            kind == ApproveKind(treasury[t], id, sender, repeated)
        IN IF kind = OK
           THEN r.code \in {OK, E_INSUFFICIENT_BALANCE}
           ELSE ErrorKind(r.code) = kind

AllocateKindsAre(tr, caps, agents, amounts, now) ==
    \A admin_cap \in caps, agent_id \in agents, amount \in amounts :
        ErrorKind(allocate_agent_budget(tr, agent_id, amount, 1, 0, admin_cap, now).code)
           = AllocateKind(tr, agent_id, amount, admin_cap, now)

C32_AllocateOrderInRange ==
    \A t \in DOMAIN treasury :
        AllocateKindsAre(treasury[t], admin_caps \cup {[treasury_id |-> 0]},
                         AgentIds \cup {"Z"}, AllocateAmounts, clock)

\* the limit check of allocate on a daily limit of the largest u64, 1 allocated
C32_AllocateOrderAtU64 ==
    LET i == initialize_treasury(1, 2, 0, MAX_U64, <<"s1", "s2">>, 2, clock)
        al == allocate_agent_budget(i.tr, "A", 1, 1, 0, i.admin_cap, clock)
    IN /\ al.code = OK
       /\ AllocateKindsAre(al.tr, {i.admin_cap}, {"A", "B"}, {1, MAX_U64 - 1, MAX_U64}, clock)

\* C32 as stated
C32_ApproveAllocateCheckOrder ==
    /\ ApproveKindsAre("DuplicateApprover")
    /\ C32_AllocateOrderInRange
    /\ C32_AllocateOrderAtU64

\* the order of the checks of approve, a repeated approver reported as Unauthorized
C32_ApproveOrderWithSharedCode == ApproveKindsAre(ErrorKind(E_NOT_AUTHORIZED))

C32_ApproveOrderAsStated == ApproveKindsAre("DuplicateApprover")


\* ---------------------------------------------------------------------------
\* C33  In every reachable state the approvals of every pending approval hold no
\*      address twice, hold signers of the treasury only, and are fewer than
\*      required_approvals; an approve by an address that is no signer changes nothing.
C33_PendingApprovers ==
    \A t \in DOMAIN treasury : \A id \in DOMAIN Pending(t) :
        LET approvals == Pending(t)[id].approvals IN
        /\ Cardinality(SeqToSet(approvals)) = Len(approvals)
        /\ SeqToSet(approvals) \subseteq SeqToSet(treasury[t].multisig_signers)
        /\ Len(approvals) < Pending(t)[id].required_approvals

C33_NonSignerFails ==
    \A t \in DOMAIN treasury, b \in DOMAIN balance_obj : \A id \in ApprovalIds :
        \A sender \in Senders \ SeqToSet(treasury[t].multisig_signers) :
            LET r == approve_transaction(treasury[t], balance_obj[b], id, sender)
            IN /\ r.code # OK
               /\ FailureLeaves([tr |-> treasury[t], bal |-> balance_obj[b], events |-> <<>>], r)

C33_ApproveStep ==
    \A t \in DOMAIN treasury, b \in DOMAIN balance_obj, id \in ApprovalIds, sender \in Senders :
        Approve(t, b, id, sender) => sender \in SeqToSet(treasury[t].multisig_signers)

C33_ApproversAreDistinctSigners ==
    /\ [](C33_PendingApprovers /\ C33_NonSignerFails)
    /\ [][C33_ApproveStep]_vars

\* a pending approval with one approval, on a treasury that is not frozen, which an
\* address that is no signer tries to approve
C33_Witness ==
    \E t \in DOMAIN treasury : \E id \in DOMAIN Pending(t) :
        /\ Len(Pending(t)[id].approvals) = 1
        /\ Pending(t)[id].required_approvals = 2
        /\ approve_transaction(treasury[t], balance_obj[t], id, "x").code = E_NOT_AUTHORIZED


\* ---------------------------------------------------------------------------
\* C34  Balance conservation: the balance of a treasury is what was deposited into it
\*      less the amounts of its immediate transfers and of its approvals executed at
\*      the quorum, and it is never negative; no other call changes it. The balance
\*      starts at 0, so the law is stated on the steps: a step changes the balance by
\*      the payment of a deposit into it, less what the step debits for the
\*      treasury's transfers and approvals.

\* what was debited so far for the transfers of treasury t, on both routes
DebitedFor(l, t) ==
    LET keys == {k \in DOMAIN l.agent : k[1] = t}
    IN SumOver(keys, [k \in keys |-> l.agent[k]])

C34_BalanceStep ==
    \A t \in DOMAIN treasury :
        LET change == balance_obj'[t].balance - balance_obj[t].balance
            debit == DebitedFor(ledger', t) - DebitedFor(ledger, t)
        IN \/ change = 0 - debit
           \/ \E payment \in Amounts :
                 /\ Deposit(t, t, payment)
                 /\ debit = 0
                 /\ change = payment

C34_NewBalanceIsZero ==
    \A t \in DOMAIN treasury' \ DOMAIN treasury :
        balance_obj'[t].balance = 0 /\ DebitedFor(ledger', t) = 0

C34_BalanceNotNegative ==
    \A t \in DOMAIN treasury : balance_obj[t].balance >= 0 /\ DebitedFor(ledger, t) >= 0

\* C34 as stated
C34_BalanceConservation ==
    []C34_BalanceNotNegative /\ [][C34_BalanceStep /\ C34_NewBalanceIsZero]_vars


\* ---------------------------------------------------------------------------
\* C35  Event order per approval id: one ApprovalRequested comes before every
\*      ApprovalProvided of the id, the ApprovalProvided events carry the counts
\*      1, 2, ... in order, at most one FundsTransferred of mode 2 exists for the id,
\*      right after the ApprovalProvided whose count reached required_approvals, and
\*      no event of the id follows it. The events of an id are those the steps emit
\*      one after the other, so the order is stated on what each step emits.

\* the events among `events` that are about approval id of treasury t
AboutApproval(events, t, id) ==
    SelectSeq(events,
              LAMBDA e : /\ e.treasury_id = t
                         /\ \/ /\ e.type \in {"ApprovalRequested", "ApprovalProvided"}
                               /\ e.approval_id = id
                            \/ /\ e.type = "FundsTransferred"
                               /\ e.approval_mode = 2
                               /\ e.approval_id = <<id>>)

\* a transfer emits ApprovalRequested for the id it opens, never opened before, and
\* nothing about any other id
C35_TransferEvents ==
    \A t \in DOMAIN treasury, b \in DOMAIN balance_obj, agent_cap \in agent_caps,
       amount \in Amounts :
        Transfer(t, b, agent_cap, amount) =>
           LET r == agent_transfer(treasury[t], balance_obj[b], agent_cap, amount, clock)
           IN \A id \in ApprovalIds :
                 LET about == AboutApproval(r.events, t, id)
                 IN IF r.ret = <<id>>
                    THEN /\ Len(about) = 1
                         /\ about[1].type = "ApprovalRequested"
                         /\ <<t, id>> \notin DOMAIN ledger.opened
                         /\ treasury'[t].pending_approvals[id].approvals = <<>>
                    ELSE about = <<>>

\* an approve of an id emits ApprovalProvided with the next count, for an id that
\* was requested and not executed, followed by FundsTransferred of mode 2 exactly
\* when the count reached required_approvals, after which the id is gone
C35_ApproveEvents ==
    \A t \in DOMAIN treasury, b \in DOMAIN balance_obj, approval_id \in ApprovalIds,
       sender \in Senders :
        Approve(t, b, approval_id, sender) =>
           LET r == approve_transaction(treasury[t], balance_obj[b], approval_id, sender)
               approval == Pending(t)[approval_id]
               count == Len(approval.approvals) + 1
           IN /\ \A id \in ApprovalIds \ {approval_id} : AboutApproval(r.events, t, id) = <<>>
              /\ AboutApproval(r.events, t, approval_id) = r.events
              /\ <<t, approval_id>> \in DOMAIN ledger.opened
              /\ ~Executed(<<t, approval_id>>)
              /\ r.events[1].type = "ApprovalProvided"
              /\ r.events[1].total_approvals = count
              /\ IF count >= approval.required_approvals
                 THEN /\ Len(r.events) = 2
                      /\ r.events[2].type = "FundsTransferred"
                      /\ approval_id \notin DOMAIN treasury'[t].pending_approvals
                      /\ Executed(<<t, approval_id>>)'
                 ELSE /\ Len(r.events) = 1
                      /\ Len(treasury'[t].pending_approvals[approval_id].approvals) = count

\* the other calls emit nothing about an approval id
C35_OtherEvents ==
    \A t \in DOMAIN treasury : \A id \in ApprovalIds :
        /\ \A agent_id \in AgentIds, amount \in Amounts, security_level \in SecurityLevels,
              duration_ms \in Durations, admin_cap \in admin_caps :
              LET r == allocate_agent_budget(treasury[t], agent_id, amount, security_level,
                                             duration_ms, admin_cap, clock)
              IN r.code = OK => AboutApproval(r.events, t, id) = <<>>
        /\ \A admin_cap \in admin_caps :
              /\ LET r == emergency_stop(treasury[t], admin_cap)
                 IN r.code = OK => AboutApproval(r.events, t, id) = <<>>
              /\ LET r == deactivate_emergency(treasury[t], admin_cap)
                 IN r.code = OK => AboutApproval(r.events, t, id) = <<>>
        /\ \A payment \in Amounts :
              LET r == deposit(treasury[t], balance_obj[t], payment)
              IN r.code = OK => AboutApproval(r.events, t, id) = <<>>

\* an id that was executed is pending no more and is requested no more, and an id
\* that is pending was requested
C35_ExecutedIsGone ==
    /\ \A k \in DOMAIN ledger.opened :
          Executed(k) => /\ k[2] \notin DOMAIN Pending(k[1])
                         /\ k[2] < treasury[k[1]].approval_counter
    /\ \A t \in DOMAIN treasury : \A id \in DOMAIN Pending(t) : <<t, id>> \in DOMAIN ledger.opened

C35_EventOrder ==
    /\ [](C35_OtherEvents /\ C35_ExecutedIsGone)
    /\ [][C35_TransferEvents /\ C35_ApproveEvents]_vars

\* an approval that was requested, approved twice and executed, and a later one that
\* has its first approval
C35_Witness ==
    \E t \in DOMAIN treasury :
        /\ Executed(<<t, 0>>)
        /\ 1 \in DOMAIN Pending(t)
        /\ Len(Pending(t)[1].approvals) = 1
        /\ Pending(t)[1].required_approvals = 2


\* ---------------------------------------------------------------------------
\* C36  Liveness of approval: a pending approval of a treasury that stays unfrozen
\*      with a balance that covers the amount is eventually executed and removed,
\*      every signer's approve being weakly fair.

\* weak fairness of every address's approve of every id, on treasury 1 with its own
\* balance object
ApproveFairness ==
    \A sender \in Senders : \A approval_id \in ApprovalIds :
        WF_vars(1 \in DOMAIN treasury /\ Approve(1, 1, approval_id, sender))

SpecFair == Spec /\ ApproveFairness
SpecWideFair == SpecWide /\ ApproveFairness

PendingNow(t, id) == t \in DOMAIN treasury /\ id \in DOMAIN Pending(t)

\* the approval is gone, or the treasury is frozen, or the balance is short of it
ExecutedOrHeldUp(t, id) ==
    \/ ~PendingNow(t, id)
    \/ treasury[t].emergency_mode
    \/ balance_obj[t].balance < Pending(t)[id].amount

C36_ApprovalLiveness ==
    \A id \in ApprovalIds : PendingNow(1, id) ~> ExecutedOrHeldUp(1, id)

\* the same for the approvals of a treasury whose signers are as many distinct
\* addresses as its threshold asks for
C36_LivenessWithDistinctSigners ==
    \A id \in ApprovalIds :
        (/\ PendingNow(1, id)
         /\ Cardinality(SeqToSet(treasury[1].multisig_signers)) >= treasury[1].multisig_threshold)
        ~> ExecutedOrHeldUp(1, id)


\* ---------------------------------------------------------------------------
\* C37  last_reset never decreases, whatever the clock values of the calls, also
\*      values that run backwards: a successful allocate leaves last_reset at least
\*      what it was, and an allocate made at now < last_reset fails without changing
\*      the state, instead of rolling or wrapping the window.
C37_LastResetStep ==
    \A t \in DOMAIN treasury : treasury'[t].last_reset >= treasury[t].last_reset

C37_AllocateBeforeLastReset ==
    \A t \in DOMAIN treasury : \A agent_id \in AgentIds \cup {"Z"} :
        \A amount \in AllocateAmounts, now \in Clocks \cup LaterTimes :
            LET tr == treasury[t]
                r == allocate_agent_budget(tr, agent_id, amount, 1, 0, OwnAdminCap(t), now)
            IN /\ r.code = OK => now >= tr.last_reset /\ r.tr.last_reset >= tr.last_reset
               /\ now < tr.last_reset =>
                     /\ r.code # OK
                     /\ left_by([tr |-> tr], r).tr = tr

C37_LastResetNeverDecreases ==
    []C37_AllocateBeforeLastReset /\ [][C37_LastResetStep]_vars

\* the clock was set back behind last_reset of a treasury that is not frozen and has
\* room under its daily limit: the allocate of a fresh agent fails
C37_Witness ==
    \E t \in DOMAIN treasury :
        /\ clock < treasury[t].last_reset
        /\ ~treasury[t].emergency_mode
        /\ treasury[t].daily_spent + 1 <= treasury[t].daily_limit
        /\ DOMAIN Allocations(t) # {}
        /\ allocate_agent_budget(treasury[t], "Z", 1, 1, 0, OwnAdminCap(t), clock).code
              = ARITHMETIC_ERROR


\* ---------------------------------------------------------------------------
\* C38  Allocation isolation and permanence: a transfer made with the capability of
\*      an agent changes the allocation of no other agent; no step removes an
\*      allocation or changes its allocated_amount, security_level or expires_at, so
\*      the agent ids that hold an allocation only grow in number, and an agent id is
\*      allocated at most once in the lifetime of the treasury.
C38_AllocationsStay ==
    \A t \in DOMAIN treasury : \A a \in DOMAIN Allocations(t) :
        /\ a \in DOMAIN treasury'[t].agent_allocations
        /\ LET before == Allocations(t)[a]
               after == treasury'[t].agent_allocations[a]
           IN /\ after.agent_id = before.agent_id
              /\ after.allocated_amount = before.allocated_amount
              /\ after.security_level = before.security_level
              /\ after.expires_at = before.expires_at
              /\ after.created_at = before.created_at
              /\ after.spent_amount >= before.spent_amount

C38_TransferTouchesOwnAllocation ==
    \A t \in DOMAIN treasury, b \in DOMAIN balance_obj, agent_cap \in agent_caps,
       amount \in Amounts :
        Transfer(t, b, agent_cap, amount) =>
           /\ \A a \in DOMAIN Allocations(t) \ {agent_cap.agent_id} :
                 treasury'[t].agent_allocations[a] = Allocations(t)[a]
           /\ \A u \in DOMAIN treasury \ {t} : treasury'[u] = treasury[u]

C38_AllocateOnce ==
    \A t \in DOMAIN treasury, agent_id \in AgentIds, amount \in Amounts,
       security_level \in SecurityLevels, duration_ms \in Durations,
       admin_cap \in admin_caps :
        Allocate(t, agent_id, amount, security_level, duration_ms, admin_cap) =>
           /\ agent_id \notin DOMAIN Allocations(t)
           /\ DOMAIN treasury'[t].agent_allocations = DOMAIN Allocations(t) \cup {agent_id}

\* no allocate of an agent id that has an allocation succeeds, now or later
C38_NoSecondAllocation ==
    \A t \in DOMAIN treasury : \A a \in DOMAIN Allocations(t) :
        \A amount \in AllocateAmounts, now \in LaterTimes, admin_cap \in admin_caps :
            allocate_agent_budget(treasury[t], a, amount, 1, 0, admin_cap, now).code # OK

C38_AllocationsIsolatedAndPermanent ==
    /\ []C38_NoSecondAllocation
    /\ [][C38_AllocationsStay /\ C38_TransferTouchesOwnAllocation /\ C38_AllocateOnce]_vars

\* two agents with an allocation each, the first of which spent all of its own and
\* the second nothing, its capability expired
C38_Witness ==
    \E t \in DOMAIN treasury :
        /\ DOMAIN Allocations(t) = {"A", "B"}
        /\ Allocations(t)["A"].spent_amount = Allocations(t)["A"].allocated_amount
        /\ Allocations(t)["B"].spent_amount = 0
        /\ Allocations(t)["B"].created_at < Allocations(t)["A"].created_at
        /\ clock > Allocations(t)["B"].expires_at


\* ---------------------------------------------------------------------------
\* C39  In every reachable state daily_spent is the sum of the allocated amounts of
\*      the allocations with created_at >= last_reset, those made in the current
\*      daily window; transfers, approvals and deposits do not count toward it.
AllocatedInWindow(t) ==
    LET agents == {a \in DOMAIN Allocations(t) :
                      Allocations(t)[a].created_at >= treasury[t].last_reset}
    IN SumOver(agents, [a \in agents |-> Allocations(t)[a].allocated_amount])

C39_DailySpentIsAllocated ==
    \A t \in DOMAIN treasury : treasury[t].daily_spent = AllocatedInWindow(t)

C39_SpendingStep ==
    \A t \in DOMAIN treasury, b \in DOMAIN balance_obj :
        (\/ \E payment \in Amounts : Deposit(t, b, payment)
         \/ \E agent_cap \in agent_caps, amount \in Amounts : Transfer(t, b, agent_cap, amount)
         \/ \E approval_id \in ApprovalIds, sender \in Senders : Approve(t, b, approval_id, sender))
        => \A u \in DOMAIN treasury : treasury'[u].daily_spent = treasury[u].daily_spent

C39_DailySpentCountsAllocations ==
    []C39_DailySpentIsAllocated /\ [][C39_SpendingStep]_vars

\* an allocation of the window before and one of the current window, from which
\* something was transferred at once and something was executed at the quorum
C39_Witness ==
    \E t \in DOMAIN treasury : \E a \in DOMAIN Allocations(t), b \in DOMAIN Allocations(t) :
        /\ Allocations(t)[a].created_at < treasury[t].last_reset
        /\ Allocations(t)[b].created_at >= treasury[t].last_reset
        /\ Allocations(t)[b].spent_amount > 0
        /\ \E k \in DOMAIN ledger.opened : k[1] = t /\ Executed(k)
        /\ treasury[t].daily_spent > 0


\* ---------------------------------------------------------------------------
\* C40  No wrap-around in the u64 fields: an allocate for which daily_spent + amount
\*      or now + duration_ms leaves the u64 range, a transfer for which
\*      spent_amount + amount leaves it, and a deposit that would push the balance
\*      past it, each fail without changing the state; no stored amount, counter or
\*      timestamp is a value reduced modulo 2^64. (u64 is scaled: MAX_U64 = 2^30 - 1.)
U64 == 0..MAX_U64

\* the values near the end of the range that make x + v end at it or leave it
NearMax(x) == {MAX_U64 - x, MAX_U64 - x + 1, MAX_U64} \cap U64

C40_StoredInRange ==
    \A t \in DOMAIN treasury :
        /\ treasury[t].daily_spent \in U64
        /\ treasury[t].daily_limit \in U64
        /\ treasury[t].last_reset \in U64
        /\ treasury[t].approval_counter \in U64
        /\ balance_obj[t].balance \in U64
        /\ \A a \in DOMAIN Allocations(t) :
              /\ Allocations(t)[a].allocated_amount \in U64
              /\ Allocations(t)[a].spent_amount \in U64
              /\ Allocations(t)[a].created_at \in U64
              /\ Allocations(t)[a].expires_at \in U64
        /\ \A id \in DOMAIN Pending(t) :
              /\ Pending(t)[id].amount \in U64
              /\ Pending(t)[id].created_at \in U64
              /\ Pending(t)[id].expires_at \in U64

\* allocate and deposit with arguments near the end of the range, on every treasury
C40_LargeArguments ==
    \A t \in DOMAIN treasury :
        LET tr == treasury[t]
            bal == balance_obj[t]
            spent == RolledDailySpent(tr, clock)
        IN /\ \A amount \in NearMax(spent) :
                 LET r == allocate_agent_budget(tr, "Z", amount, 1, 0, OwnAdminCap(t), clock)
                 IN /\ r.code # OK
                    /\ left_by([tr |-> tr], r).tr = tr
                    /\ (~tr.emergency_mode /\ spent + amount > MAX_U64)
                          => r.code = ARITHMETIC_ERROR
           /\ \A duration_ms \in NearMax(clock) :
                 LET r == allocate_agent_budget(tr, "Z", 0, 1, duration_ms, OwnAdminCap(t), clock)
                 IN IF clock + duration_ms > MAX_U64
                    THEN /\ r.code # OK
                         /\ left_by([tr |-> tr], r).tr = tr
                         /\ ~tr.emergency_mode => r.code = ARITHMETIC_ERROR
                    ELSE ~tr.emergency_mode =>
                            r.code = OK /\ r.ret.expires_at = clock + duration_ms
           /\ \A payment \in NearMax(bal.balance) :
                 LET r == deposit(tr, bal, payment)
                 IN IF bal.balance + payment > MAX_U64
                    THEN /\ r.code = ARITHMETIC_ERROR
                         /\ left_by([tr |-> tr, bal |-> bal], r) = [tr |-> tr, bal |-> bal]
                    ELSE r.code = OK /\ r.bal.balance = bal.balance + payment

\* a transfer on an allocation of the largest u64 of which 1 is spent
C40_LargeTransfer ==
    LET i == initialize_treasury(1, MAX_U64, 0, MAX_U64, <<"s1", "s2">>, 2, clock)
        al == allocate_agent_budget(i.tr, "A", MAX_U64, 1, 0, i.admin_cap, clock)
        d == deposit(al.tr, i.bal, 1)
        x == agent_transfer(al.tr, d.bal, al.ret, 1, clock)
        r == agent_transfer(x.tr, x.bal, al.ret, MAX_U64, clock)
    IN /\ x.code = OK
       /\ x.tr.agent_allocations["A"].spent_amount = 1
       /\ r.code = ARITHMETIC_ERROR
       /\ left_by([tr |-> x.tr, bal |-> x.bal], r) = [tr |-> x.tr, bal |-> x.bal]

C40_NoWrapAround == C40_StoredInRange /\ C40_LargeArguments /\ C40_LargeTransfer

\* a treasury that is not frozen, with something allocated in the current window and
\* something in the balance, at a time after 0: an allocate of the largest u64, an
\* allocate for the longest duration and a deposit of the largest u64 leave the range
C40_Witness ==
    \E t \in DOMAIN treasury :
        /\ ~treasury[t].emergency_mode
        /\ clock > 0
        /\ RolledDailySpent(treasury[t], clock) > 0
        /\ balance_obj[t].balance > 0
        /\ allocate_agent_budget(treasury[t], "Z", MAX_U64, 1, 0, OwnAdminCap(t), clock).code
              = ARITHMETIC_ERROR
        /\ allocate_agent_budget(treasury[t], "Z", 0, 1, MAX_U64, OwnAdminCap(t), clock).code
              = ARITHMETIC_ERROR
        /\ deposit(treasury[t], balance_obj[t], MAX_U64).code = ARITHMETIC_ERROR

====
